---- MODULE Spec2Model ----
(***************************************************************************)
(* The OPLS-AA atom typer of mbuild (tools/parameterize/oplsaa.py) over    *)
(* the Atom/Bond structure of mbuild/core.py.                              *)
(*                                                                         *)
(* Atoms are 1..Len(kind) in the order Compound.yield_atoms() yields them. *)
(* A Bond object is the ordered pair <<atom1, atom2>>.  Rule identifiers   *)
(* are the strings str() makes of them.                                    *)
(***************************************************************************)
EXTENDS Integers, Sequences, FiniteSets, TLC

VARIABLES
    kind,               \* Atom.kind of every atom (a sequence)
    bonds,              \* the Bond objects held in the atoms' bond sets
    nrev,               \* iteration order of the set Atom.bonds
    catalog,            \* which opls_* functions the module defines
    rorder,             \* iteration order of the dict rule_number_to_rule
    debug,              \* the debug argument of atomtypes_opls
    rule_map,           \* the global rule_map
    neighbor_types_map, \* the global neighbor_types_map
    pc,                 \* position inside atomtypes_opls
    exc,                \* the exception that left atomtypes_opls, if any
    run,                \* number of the current call of atomtypes_opls
    iter_cnt,           \* loop variable of the outer iteration
    ai,                 \* position of the atom loop
    ri,                 \* position of the rule loop of the current atom
    ti,                 \* position of the reducer loop
    old_len,
    new_len,
    wl,                 \* atom.extras['opls_whitelist'] of every atom
    bl,                 \* atom.extras['opls_blacklist'] of every atom
    opls_type,          \* atom.extras['opls_type'] of every atom
    warnings,           \* the warn() calls made so far, in order
    snap,               \* history: <<wl, bl>> at the start of the current pass
    hist,               \* history: per finished pass, whether a set changed
    prev,               \* history: what the previous call left behind
    ring_atom,          \* argument atom of Rings(atom, ring_length)
    ring_length,        \* argument ring_length
    rings,              \* Rings(...).rings
    current_path,       \* Rings(...).current_path
    step_pos,           \* per active call of Rings.step: the neighbour the
                        \* loop "for n in neighbors" takes next
    parts,              \* Compound.parts of every compound
    parent,             \* the parent of every part
    atom_bonds,         \* Atom.bonds of every atom
    labels,             \* Compound.labels: the entries that hold a part
    label_lists,        \* Compound.labels: the entries that hold a list
    referrers,          \* the referrers of every part
    raised,             \* the exception that left the last call of
                        \* Compound.add or Compound.remove, if any
    calls               \* history: the calls made on the hierarchy so far

vars == <<kind, bonds, nrev, catalog, rorder, debug, rule_map,
          neighbor_types_map, pc, exc, run, iter_cnt, ai, ri, ti, old_len,
          new_len, wl, bl, opls_type, warnings, snap, hist, prev,
          ring_atom, ring_length, rings, current_path, step_pos,
          parts, parent, atom_bonds, labels, label_lists, referrers, raised,
          calls>>

molVars == <<kind, bonds, nrev, catalog, rorder, debug>>
ringVars == <<ring_atom, ring_length, rings, current_path, step_pos>>
partVars == <<parts, parent, atom_bonds, labels, label_lists, referrers,
              raised, calls>>

-----------------------------------------------------------------------------
(* Bounds of the model. *)

\* atoms of the exhaustively enumerated compounds
MaxAtoms == 3
\* calls of atomtypes_opls on one compound
MaxRuns == 2
\* rules of the deep-dependency catalog
ChainLen == 22
\* atoms of the graphs the ring search is run on
MaxRingAtoms == 4
\* largest ring_length the ring search is run with
MaxRingLength == 6
\* atoms of the enumerated compounds the typer is called on repeatedly
MaxRerunAtoms == 2

\* atoms removed from the compound between two runs
MaxRemoved == 1

\* compounds of a containment hierarchy
MaxCompounds == 2
\* atoms of a containment hierarchy
MaxPartAtoms == 2
\* parts added to one compound under the same "[$]" label
MaxListed == 1

\* calls made on one containment hierarchy
MaxCalls == 6

\* max_iter of atomtypes_opls
max_iter == 10

\* The key '*' of rule_map[element]
Star == -1

Sentinel == "XXX"

-----------------------------------------------------------------------------
(* Sequences. *)

Range(s) == {s[i] : i \in 1..Len(s)}

Reverse(s) == [i \in 1..Len(s) |-> s[Len(s) + 1 - i]]

RECURSIVE Flatten(_)
Flatten(ss) == IF ss = <<>> THEN <<>> ELSE Head(ss) \o Flatten(Tail(ss))

RECURSIVE SumOver(_, _)
SumOver(S, f) ==
    IF S = {} THEN 0
    ELSE LET x == CHOOSE y \in S : TRUE IN f[x] + SumOver(S \ {x}, f)

-----------------------------------------------------------------------------
(* The containment hierarchy: the objects Compound.add and Compound.remove *)
(* work on.  A part is named by its class and a number; a Bond by the      *)
(* numbers of its two atoms.                                               *)

Part(cls, i, j) == [cls |-> cls, id |-> i, to |-> j]

None == Part("None", 0, 0)

CompoundObjs == {Part("Compound", i, 0) : i \in 1..MaxCompounds}

AtomObjs == {Part("Atom", i, 0) : i \in 1..MaxPartAtoms}

\* one Bond object for every ordered pair of atoms: Bond(a, b), Bond(b, a)
BondObjs ==
    {Part("Bond", p[1], p[2]) :
        p \in {q \in (1..MaxPartAtoms) \X (1..MaxPartAtoms) : q[1] # q[2]}}

Objs == CompoundObjs \cup AtomObjs \cup BondObjs

\* no compound has been built
NoHierarchy ==
    /\ parts = <<>>
    /\ parent = <<>>
    /\ atom_bonds = <<>>
    /\ labels = <<>>
    /\ label_lists = <<>>
    /\ referrers = <<>>
    /\ raised = ""
    /\ calls = 0

-----------------------------------------------------------------------------
(* The structure: core.py. *)

Atoms == 1..Len(kind)

\* Bond.other_atom
other_atom(b, a) == IF b[1] = a THEN b[2] ELSE b[1]

\* Atom.bonds: the Bond objects the atom is part of
AtomBonds(a) == {b \in bonds : b[1] = a \/ b[2] = a}

BondKey(b, a) == 2 * other_atom(b, a) + (IF b[1] = a THEN 0 ELSE 1)

RECURSIVE OrderBonds(_, _)
OrderBonds(S, a) ==
    IF S = {} THEN <<>>
    ELSE LET b == CHOOSE x \in S : \A y \in S : BondKey(x, a) <= BondKey(y, a)
         IN  <<b>> \o OrderBonds(S \ {b}, a)

\* "for bond in self.bonds": the order in which the set is iterated.  The
\* order of a Python set is not specified; two orders are modelled.
BondList(a) ==
    IF nrev THEN Reverse(OrderBonds(AtomBonds(a), a))
    ELSE OrderBonds(AtomBonds(a), a)

\* Atom.neighbors
neighbors(a) == LET bs == BondList(a) IN [i \in 1..Len(bs) |-> other_atom(bs[i], a)]

\* Compound.atoms: atom_list_by_kind(excludeG=True)
RECURSIVE FilterG(_)
FilterG(s) ==
    IF s = <<>> THEN <<>>
    ELSE IF kind[Head(s)] = "G" THEN FilterG(Tail(s))
    ELSE <<Head(s)>> \o FilterG(Tail(s))

atoms == FilterG([i \in 1..Len(kind) |-> i])

-----------------------------------------------------------------------------
(* neighbor_types: the cached element counts of an atom's neighbours. *)

\* the defaultdict built from atom.bonds
Profile(a) ==
    LET nb == neighbors(a)
        ks == {kind[nb[i]] : i \in 1..Len(nb)}
    IN  [e \in ks |-> Cardinality({i \in 1..Len(nb) : kind[nb[i]] = e})]

neighbor_types(ntm, a) == IF a \in DOMAIN ntm THEN ntm[a] ELSE Profile(a)

\* neighbor_types_map after a call of neighbor_types(a)
CacheAfter(ntm, a) ==
    IF a \in DOMAIN ntm THEN ntm
    ELSE [x \in (DOMAIN ntm) \cup {a} |-> IF x = a THEN Profile(a) ELSE ntm[x]]

-----------------------------------------------------------------------------
(* class Rings: the depth-first ring search. *)

RECURSIVE step(_, _)
RECURSIVE StepLoop(_, _, _, _)

\* One round of "for n in neighbors" in Rings.step, and the rounds after it:
\* the rings appended to self.rings, in order.
StepLoop(nb, i, path, L) ==
    IF i > Len(nb) THEN <<>>
    ELSE LET n == nb[i]
             current_length == Len(path)
             found ==
                 IF current_length > 2 /\ n = path[1] THEN <<path>>
                 ELSE IF n \in Range(path) THEN <<>>
                 ELSE IF current_length < L THEN step(Append(path, n), L)
                 ELSE <<>>
         IN  found \o StepLoop(nb, i + 1, path, L)

\* Rings.step(atom) with self.current_path = path, whose last atom is atom
step(path, L) ==
    LET nb == neighbors(path[Len(path)])
    IN  IF Len(nb) > 1 THEN StepLoop(nb, 1, path, L) ELSE <<>>

\* Rings(atom, ring_length).rings
Rings(atom, L) == step(<<atom>>, L)

\* benzene(atom): the ring, or the empty list for False
benzene(atom) ==
    LET r == Rings(atom, 6)
    IN  IF Len(r) = 2
           /\ \A i \in 1..Len(r[1]) :
                  kind[r[1][i]] = "C" /\ Len(neighbors(r[1][i])) = 3
        THEN r[1]
        ELSE <<>>

-----------------------------------------------------------------------------
(* The rule catalog: the decorated opls_* functions.                       *)
(*                                                                         *)
(* A rule is the record of its decorators, outermost first: the Element    *)
(* and NeighborCount decorators, the Neighbors* decorators, Whitelist,     *)
(* Blacklist, and the function body (body names it, arg holds the rule     *)
(* identifiers the body looks up with check_atom).                         *)

Ex(e, n) == [op |-> "exactly", el |-> e, n |-> n]
AtLeast(e, n) == [op |-> "at_least", el |-> e, n |-> n]
AtMost(e, n) == [op |-> "at_most", el |-> e, n |-> n]

Rule(id, el, cnt, cons, w, b, body, arg) ==
    [id |-> id, elements |-> el, counts |-> cnt, cons |-> cons,
     wl |-> w, bl |-> b, body |-> body, arg |-> arg]

opls_135 == Rule("135", <<"C">>, <<4>>, <<Ex("C", 1), Ex("H", 3)>>, {"135"}, {}, "true", {})
opls_136 == Rule("136", <<"C">>, <<4>>, <<Ex("C", 2), Ex("H", 2)>>, {"136"}, {}, "true", {})
opls_137 == Rule("137", <<"C">>, <<4>>, <<Ex("C", 3), Ex("H", 1)>>, {"137"}, {}, "true", {})
\* fault: the constraint of opls_135 on hydrogens copied to opls_138
opls_138_ThreeH == Rule("138", <<"C">>, <<4>>, <<Ex("H", 3)>>, {"138"}, {}, "true", {})
opls_138 == Rule("138", <<"C">>, <<4>>, <<Ex("H", 4)>>, {"138"}, {}, "true", {})
opls_139 == Rule("139", <<"C">>, <<4>>, <<Ex("C", 4)>>, {"139"}, {}, "true", {})
opls_140 == Rule("140", <<"H">>, <<1>>, <<Ex("C", 1)>>, {"140"}, {}, "true", {})
opls_141 == Rule("141", <<"C">>, <<3>>, <<Ex("C", 3)>>, {"141"}, {}, "true", {})
opls_142 == Rule("142", <<"C">>, <<3>>, <<Ex("C", 2), Ex("H", 1)>>, {"142"}, {}, "true", {})
opls_143 == Rule("143", <<"C">>, <<3>>, <<Ex("C", 1), Ex("H", 2)>>, {"143"}, {}, "true", {})
opls_144 == Rule("144", <<"H">>, <<1>>, <<Ex("C", 1)>>, {"144"}, {"140"},
                 "first_neighbor", {"141", "142", "143"})
\* fault: opls_145 with a Blacklist decorator that leaves out 141
opls_145_Without141 == Rule("145", <<"C">>, <<3>>, <<AtLeast("C", 2)>>, {"145"}, {"142"},
                            "benzene", {})
opls_145 == Rule("145", <<"C">>, <<3>>, <<AtLeast("C", 2)>>, {"145"}, {"141", "142"},
                 "benzene", {})
opls_145B == Rule("145B", <<"C">>, <<3>>, <<Ex("C", 3)>>, {"145B"}, {"141", "145"},
                  "biphenyl", {})
opls_146 == Rule("146", <<"H">>, <<1>>, <<>>, {"146"}, {"140", "144"},
                 "first_neighbor", {"145"})
opls_148 == Rule("148", <<"C">>, <<4>>, <<Ex("C", 1), Ex("H", 3)>>, {"148"}, {"135"},
                 "carbon_neighbor", {"145"})
opls_149 == Rule("149", <<"C">>, <<4>>, <<Ex("C", 2), Ex("H", 2)>>, {"149"}, {"136"},
                 "carbon_neighbor", {"145"})
opls_154 == Rule("154", <<"O">>, <<2>>, <<Ex("H", 1)>>, {"154"}, {}, "true", {})
opls_155 == Rule("155", <<"H">>, <<1>>, <<Ex("O", 1)>>, {"155"}, {},
                 "first_neighbor", {"154"})
opls_218 == Rule("218", <<"C">>, <<4>>, <<Ex("O", 1), Ex("C", 1), Ex("H", 2)>>,
                 {"218"}, {}, "opls_218", {})
opls_221 == Rule("221", <<"C">>, <<3>>, <<Ex("C", 3)>>, {"221"},
                 {"141", "145", "145B"}, "opls_221", {})
opls_232 == Rule("232", <<"C">>, <<3>>, <<AtLeast("C", 1), Ex("O", 1)>>, {"232"}, {},
                 "opls_232", {})
opls_278 == Rule("278", <<"O">>, <<1>>, <<AtLeast("C", 1)>>, {"278"}, {}, "true", {})
opls_279 == Rule("279", <<"H">>, <<1>>, <<AtLeast("C", 1)>>, {"279"},
                 {"140", "144", "146"}, "first_neighbor", {"232", "277"})

\* the opls_* functions of oplsaa.py
OplsRules ==
    {opls_135, opls_136, opls_137, opls_138, opls_139, opls_140, opls_141,
     opls_142, opls_143, opls_144, opls_145, opls_145B, opls_146, opls_148,
     opls_149, opls_154, opls_155, opls_218, opls_221, opls_232, opls_278,
     opls_279}

OplsOrder ==
    <<"135", "136", "137", "138", "139", "140", "141", "142", "143", "144",
      "145", "145B", "146", "148", "149", "154", "155", "218", "221", "232",
      "278", "279">>

\* Catalogs a module of opls_* functions can hold besides the built-in one.
\* A chain of rules each of which asks for its predecessor on the first
\* neighbour and blacklists it (as opls_146 asks for 145 and blacklists 144):
ChainId(k) == ToString(500 + k)

ChainRule(k) ==
    IF k = 0
    THEN Rule(ChainId(0), <<"C">>, <<1>>, <<Ex("C", 1)>>, {ChainId(0)}, {}, "true", {})
    ELSE Rule(ChainId(k), <<"C">>, <<1>>, <<Ex("C", 1)>>, {ChainId(k)},
              {ChainId(k - 1)}, "first_neighbor", {ChainId(k - 1)})

ChainRules == {ChainRule(k) : k \in 0..(ChainLen - 1)}

ChainOrder == [i \in 1..ChainLen |-> ChainId(i - 1)]

\* a rule that carries two Element decorators
DupElementRule ==
    Rule("900", <<"C", "C">>, <<4>>, <<Ex("H", 4)>>, {"900"}, {}, "true", {})

\* a rule that carries an Element decorator and no NeighborCount
ElementOnlyRule == Rule("901", <<"H">>, <<>>, <<>>, {"901"}, {}, "true", {})

\* two rules for the carbon of methane that blacklist each other
MutualRuleA == Rule("910", <<"C">>, <<4>>, <<Ex("H", 4)>>, {"910"}, {"911"}, "true", {})
MutualRuleB == Rule("911", <<"C">>, <<4>>, <<Ex("H", 4)>>, {"911"}, {"910"}, "true", {})

\* a second rule for the carbon of methane, with no Blacklist decorator
UnrankedRule == Rule("912", <<"C">>, <<4>>, <<Ex("H", 4)>>, {"912"}, {}, "true", {})

\* an oxygen rule that asks for no hydrogen neighbour, and a carbon rule that
\* asks for at most one oxygen neighbour
ZeroCountRule == Rule("920", <<"O">>, <<1>>, <<Ex("H", 0)>>, {"920"}, {}, "true", {})
AtMostRule == Rule("921", <<"C">>, <<2>>, <<AtMost("O", 1)>>, {"921"}, {}, "true", {})

Catalog(c) ==
    CASE c = "opls" -> OplsRules
      [] c = "chain" -> ChainRules
      [] c = "chain_stable" -> {ChainRule(k) : k \in 0..(ChainLen - 5)}
      [] c = "race" -> {ChainRule(0), ChainRule(1)}
      [] c = "dup_element" -> OplsRules \cup {DupElementRule}
      [] c = "element_only" -> OplsRules \cup {ElementOnlyRule}
      [] c = "mutual" -> OplsRules \cup {MutualRuleA, MutualRuleB}
      [] c = "unranked" -> OplsRules \cup {UnrankedRule}
      [] c = "mutual_dup" -> OplsRules \cup {MutualRuleA, MutualRuleB, DupElementRule}
      [] c = "at_most" -> {ZeroCountRule, AtMostRule}

DictOrder(c) ==
    CASE c = "opls" -> OplsOrder
      [] c = "chain" -> ChainOrder
      [] c = "chain_stable" -> SubSeq(ChainOrder, 1, ChainLen - 4)
      [] c = "race" -> <<ChainId(0), ChainId(1)>>
      [] c = "dup_element" -> OplsOrder \o <<"900">>
      [] c = "element_only" -> OplsOrder \o <<"901">>
      [] c = "mutual" -> OplsOrder \o <<"910", "911">>
      [] c = "unranked" -> OplsOrder \o <<"912">>
      [] c = "mutual_dup" -> OplsOrder \o <<"910", "911", "900">>
      [] c = "at_most" -> <<"920", "921">>

\* rule_number_to_rule[rule_id]
RuleOf(id) == CHOOSE r \in Catalog(catalog) : r.id = id

HasRule(id) == \E r \in Catalog(catalog) : r.id = id

\* str() of a decorated function object, as stored in the '*' bucket
FnRepr(id) == "<function wrapped>"

-----------------------------------------------------------------------------
(* Running one rule on one atom. *)

\* check_atom(neighbor, input_rule_ids), with the lists w and b of all atoms
check_atom(w, b, neighbor, rule_ids) == (rule_ids \cap w[neighbor]) \ b[neighbor]

\* the test of one Neighbors* decorator on the (cached) neighbour counts
ConstraintHolds(c, prof) ==
    /\ c.el \in DOMAIN prof
    /\ CASE c.op = "exactly" -> prof[c.el] = c.n
         [] c.op = "at_least" -> prof[c.el] >= c.n
         [] c.op = "at_most" -> prof[c.el] <= c.n

\* fault: a NeighborCount decorator that lets every call through
ElementCountPassAnyCount(r, a) == \A i \in 1..Len(r.elements) : kind[a] = r.elements[i]

\* Element.wrapped and NeighborCount.wrapped let the call through
ElementCountPass(r, a) ==
    /\ \A i \in 1..Len(r.elements) : kind[a] = r.elements[i]
    /\ \A i \in 1..Len(r.counts) : Len(neighbors(a)) = r.counts[i]

\* all decorators above Whitelist let the call through
GatesPass(r, a, ntm) ==
    /\ ElementCountPass(r, a)
    /\ \A i \in 1..Len(r.cons) : ConstraintHolds(r.cons[i], neighbor_types(ntm, a))

\* the last neighbour of element e in the neighbour list, 0 if there is none
LastOfKind(nb, e) ==
    LET is == {i \in 1..Len(nb) : kind[nb[i]] = e}
    IN  IF is = {} THEN 0 ELSE nb[CHOOSE i \in is : \A j \in is : j <= i]

\* the exception the function body raises on atom a, "" if it returns
BodyRaises(r, a, w, b) ==
    LET nb == neighbors(a)
        c == LastOfKind(nb, "C")
        o == LastOfKind(nb, "O")
    IN  CASE r.body = "first_neighbor" ->
                 IF Len(nb) = 0 THEN "IndexError" ELSE ""
          [] r.body = "opls_232" ->
                 IF c = 0 THEN "UnboundLocalError"
                 ELSE IF check_atom(w, b, c, {"145"}) # {} /\ o = 0
                      THEN "UnboundLocalError"
                      ELSE ""
          [] OTHER -> ""

\* whether the function body returns a true value on atom a
Body(r, a, w, b) ==
    LET nb == neighbors(a)
    IN  CASE r.body = "true" -> TRUE
          [] r.body = "first_neighbor" -> check_atom(w, b, nb[1], r.arg) # {}
          [] r.body = "carbon_neighbor" ->
                 \E i \in 1..Len(nb) :
                     kind[nb[i]] = "C" /\ check_atom(w, b, nb[i], r.arg) # {}
          [] r.body = "benzene" -> benzene(a) # <<>>
          [] r.body = "biphenyl" ->
                 LET ring_one == benzene(a)
                 IN  /\ ring_one # <<>>
                     /\ \E i \in 1..Len(nb) :
                            nb[i] \notin Range(ring_one) /\ benzene(nb[i]) # <<>>
          [] r.body = "opls_218" ->
                 LET c == LastOfKind(nb, "C")
                     o == LastOfKind(nb, "O")
                 IN  /\ c # 0 /\ check_atom(w, b, c, {"145"}) # {}
                     /\ o # 0 /\ check_atom(w, b, o, {"154"}) # {}
          [] r.body = "opls_221" ->
                 /\ check_atom(w, b, a, {"145"}) # {}
                 /\ \E i \in 1..Len(nb) : check_atom(w, b, nb[i], {"218"}) # {}
          [] r.body = "opls_232" ->
                 LET c == LastOfKind(nb, "C")
                     o == LastOfKind(nb, "O")
                 IN  /\ check_atom(w, b, c, {"145"}) # {}
                     /\ check_atom(w, b, o, {"278"}) # {}

\* whitelist(atom, rule): atom a's whitelist afterwards
\* fault: a whitelist that is replaced, not added to
whitelistReplace(w, a, rule_numbers) == rule_numbers

whitelist(w, a, rule_numbers) == w[a] \cup rule_numbers

\* fault: a Blacklist decorator that returns True and adds nothing
blacklistNothing(b, a, rule_numbers) == b[a]

\* blacklist(atom, rule): atom a's blacklist afterwards
blacklist(b, a, rule_numbers) == b[a] \cup rule_numbers

\* rule_fn(atom): the decorated function called on atom a.
\* Gives a's lists and the cache afterwards, and the exception raised.
rule_fn(r, a, w, b, ntm) ==
    LET ntm2 == IF ElementCountPass(r, a) /\ Len(r.cons) > 0
                THEN CacheAfter(ntm, a) ELSE ntm
        same == [w |-> w[a], b |-> b[a], ntm |-> ntm2, raised |-> ""]
    IN  IF ~GatesPass(r, a, ntm) THEN same
        ELSE IF BodyRaises(r, a, w, b) # ""
        THEN [same EXCEPT !.raised = BodyRaises(r, a, w, b)]
        ELSE IF Body(r, a, w, b)
        THEN [w |-> whitelist(w, a, r.wl), b |-> blacklist(b, a, r.bl),
              ntm |-> ntm2, raised |-> ""]
        ELSE same

\* fault: a guard that looks at the whitelist only
MayRunUnlessWhitelisted(rule_id, w, b, a) == rule_id \notin w[a]

\* the guard of run_rule
MayRun(rule_id, w, b, a) == rule_id \notin b[a] /\ rule_id \notin w[a]

\* run_rule(atom, rule_id)
run_rule(a, rule_id, w, b, ntm) ==
    IF MayRun(rule_id, w, b, a)
    THEN IF HasRule(rule_id)
         THEN rule_fn(RuleOf(rule_id), a, w, b, ntm)
         ELSE [w |-> w[a], b |-> b[a], ntm |-> ntm, raised |-> "KeyError"]
    ELSE [w |-> w[a], b |-> b[a], ntm |-> ntm, raised |-> ""]

-----------------------------------------------------------------------------
(* rule_map. *)

\* element_type and neighbor_count as the loops over the decorators leave them
ElementType(r) == IF r.elements = <<>> THEN "" ELSE r.elements[Len(r.elements)]

HasCount(r) == r.counts # <<>>

NeighborCountOf(r) == r.counts[Len(r.counts)]

AppendTo(m, key, v) ==
    IF key \in DOMAIN m THEN [m EXCEPT ![key] = Append(@, v)]
    ELSE [k \in (DOMAIN m) \cup {key} |-> IF k = key THEN <<v>> ELSE m[k]]

\* one round of "for rule_number, rule in rule_number_to_rule.items()"
AddRule(m, id) ==
    LET r == RuleOf(id)
    IN  IF ElementType(r) # "" /\ ~HasCount(r)
        THEN AppendTo(m, <<ElementType(r), Star>>, FnRepr(id))
        ELSE IF ElementType(r) # "" /\ HasCount(r)
        THEN AppendTo(m, <<ElementType(r), NeighborCountOf(r)>>, id)
        ELSE m

RECURSIVE BuildRuleMap(_, _)
BuildRuleMap(m, ids) ==
    IF ids = <<>> THEN m ELSE BuildRuleMap(AddRule(m, Head(ids)), Tail(ids))

NoElementWarnings(ids) ==
    LET bad == {i \in 1..Len(ids) : ElementType(RuleOf(ids[i])) = ""}
    IN  [j \in 1..Cardinality(bad) |->
            [msg |-> "rule has no element type", atom |-> 0]]

InRuleMap(e) == \E k \in DOMAIN rule_map : k[1] = e

Bucket(e, n) == IF <<e, n>> \in DOMAIN rule_map THEN rule_map[<<e, n>>] ELSE <<>>

\* fault: the rules of every neighbour count of the element are run
TodoAnyCount(a) ==
    Flatten([i \in 1..5 |-> Bucket(kind[a], IF i = 1 THEN Star ELSE i - 2)])

\* the rules the atom loop runs on atom a, in order
Todo(a) == Bucket(kind[a], Star) \o Bucket(kind[a], Len(neighbors(a)))

-----------------------------------------------------------------------------
(* Compounds the typer is run on. *)

Mol(k, b) == [kind |-> k, bonds |-> b]

\* the same compound with its atoms added in the opposite order
Relabel(m) ==
    LET n == Len(m.kind)
    IN  Mol(Reverse(m.kind), {<<n + 1 - b[1], n + 1 - b[2]>> : b \in m.bonds})

\* a six-ring on atoms f+1..f+6
SixRing(f) == {<<f + i, f + i + 1>> : i \in 1..5} \cup {<<f + 1, f + 6>>}

\* atom h+i bonded to atom f+i, for i in 1..n
Spokes(f, h, n) == {<<f + i, h + i>> : i \in 1..n}

Methane == Mol(<<"C", "H", "H", "H", "H">>, Spokes(0, 1, 1) \cup {<<1, 3>>, <<1, 4>>, <<1, 5>>})

\* methane between two ghost atoms of a Port
MethanePort ==
    Mol(<<"G", "C", "H", "H", "H", "H", "G">>, {<<2, 3>>, <<2, 4>>, <<2, 5>>, <<2, 6>>})

\* CH3-NH2: nitrogen has no rule
Methylamine ==
    Mol(<<"C", "N", "H", "H", "H", "H", "H">>,
        {<<1, 2>>, <<1, 3>>, <<1, 4>>, <<1, 5>>, <<2, 6>>, <<2, 7>>})

Ethanol ==
    Mol(<<"C", "C", "O", "H", "H", "H", "H", "H", "H">>,
        {<<1, 2>>, <<2, 3>>, <<1, 4>>, <<1, 5>>, <<1, 6>>, <<2, 7>>, <<2, 8>>, <<3, 9>>})

Propene ==
    Mol(<<"C", "C", "C", "H", "H", "H", "H", "H", "H">>,
        {<<1, 2>>, <<2, 3>>, <<1, 4>>, <<1, 5>>, <<2, 6>>, <<3, 7>>, <<3, 8>>, <<3, 9>>})

\* ethene whose double bond was added as two Bond objects, Bond(a, b) and
\* Bond(b, a), which Bond.__eq__ does not take for equal
EtheneTwoBonds ==
    Mol(<<"C", "C", "H", "H", "H", "H">>,
        {<<1, 2>>, <<2, 1>>, <<1, 3>>, <<1, 4>>, <<2, 5>>, <<2, 6>>})

Benzene == Mol(<<"C", "C", "C", "C", "C", "C", "H", "H", "H", "H", "H", "H">>,
               SixRing(0) \cup Spokes(0, 6, 6))

Toluene ==
    Mol(<<"C", "C", "C", "C", "C", "C", "H", "H", "H", "H", "H",
          "C", "H", "H", "H">>,
        SixRing(0) \cup Spokes(0, 6, 5)
            \cup {<<6, 12>>, <<12, 13>>, <<12, 14>>, <<12, 15>>})

BenzylAlcohol ==
    Mol(<<"C", "C", "C", "C", "C", "C", "H", "H", "H", "H", "H",
          "C", "H", "H", "O", "H">>,
        SixRing(0) \cup Spokes(0, 6, 5)
            \cup {<<6, 12>>, <<12, 13>>, <<12, 14>>, <<12, 15>>, <<15, 16>>})

Benzaldehyde ==
    Mol(<<"C", "C", "C", "C", "C", "C", "H", "H", "H", "H", "H",
          "C", "O", "H">>,
        SixRing(0) \cup Spokes(0, 6, 5) \cup {<<6, 12>>, <<12, 13>>, <<12, 14>>})

Acetophenone ==
    Mol(<<"C", "C", "C", "C", "C", "C", "H", "H", "H", "H", "H",
          "C", "O", "C", "H", "H", "H">>,
        SixRing(0) \cup Spokes(0, 6, 5)
            \cup {<<6, 12>>, <<12, 13>>, <<12, 14>>, <<14, 15>>, <<14, 16>>, <<14, 17>>})

Biphenyl ==
    Mol(<<"C", "C", "C", "C", "C", "C", "C", "C", "C", "C", "C", "C",
          "H", "H", "H", "H", "H", "H", "H", "H", "H", "H">>,
        SixRing(0) \cup SixRing(6) \cup {<<6, 7>>}
            \cup Spokes(0, 12, 5) \cup Spokes(7, 17, 5))

\* a three-ring of carbons, each with one more carbon neighbour
Radialene ==
    Mol(<<"C", "C", "C", "C", "C", "C">>,
        {<<1, 2>>, <<2, 3>>, <<1, 3>>, <<1, 4>>, <<2, 5>>, <<3, 6>>})

\* a three-ring of carbons, each with one oxygen neighbour
Deltate ==
    Mol(<<"C", "C", "C", "O", "O", "O">>,
        {<<1, 2>>, <<2, 3>>, <<1, 3>>, <<1, 4>>, <<2, 5>>, <<3, 6>>})

\* a six-ring of carbons of which one carries an oxygen
Phenoxy ==
    Mol(<<"C", "C", "C", "C", "C", "C", "H", "H", "H", "H", "H", "O">>,
        SixRing(0) \cup Spokes(0, 6, 5) \cup {<<6, 12>>})

\* H-C-N: a carbon with 2 neighbours next to a nitrogen
HydrogenCyanide == Mol(<<"H", "C", "N">>, {<<1, 2>>, <<2, 3>>})

\* a six-ring of carbons with the three bonds across it: every atom has 3
\* carbon neighbours and lies on several rings
ChordedRing ==
    Mol(<<"C", "C", "C", "C", "C", "C">>, SixRing(0) \cup {<<1, 4>>, <<2, 5>>, <<3, 6>>})

\* a six-ring of carbons (1..6) each with a third carbon neighbour that has
\* 3 carbon neighbours itself: atom 1 carries a phenyl ring (18..23, with
\* hydrogens 24..28), atoms 2..6 carry the carbons 7..11, which are closed
\* off by the carbons 12..17
PhenylCarbonRing ==
    Mol([i \in 1..28 |-> IF i <= 23 THEN "C" ELSE "H"],
        SixRing(0) \cup Spokes(1, 6, 5)
            \cup {<<7, 12>>, <<7, 13>>, <<10, 12>>, <<10, 13>>,
                  <<8, 14>>, <<8, 15>>, <<11, 14>>, <<11, 15>>,
                  <<9, 16>>, <<9, 17>>}
            \cup SixRing(17) \cup {<<1, 18>>} \cup Spokes(18, 23, 5))

Library ==
    {Methane, MethanePort, Methylamine, Ethanol, Propene, EtheneTwoBonds,
     Benzene, Toluene, BenzylAlcohol, Benzaldehyde, Acetophenone, Biphenyl,
     Radialene, Deltate, Phenoxy, HydrogenCyanide, ChordedRing,
     PhenylCarbonRing}

SmallKinds == {"C", "H", "O", "G"}

\* every compound of at most MaxAtoms atoms with at most one Bond per pair
SmallMolecules ==
    UNION {{Mol(k, b) : k \in [1..n -> SmallKinds],
                        b \in SUBSET {<<i, j>> \in (1..n) \X (1..n) : i < j}}
           : n \in 1..MaxAtoms}

\* the compound of two carbons the chain catalog is run on
ChainPair == Mol(<<"C", "C">>, {<<1, 2>>})

\* a carbon with two neighbours and an oxygen with one, the neighbours
\* hydrogen or oxygen, carbon or hydrogen
AtMostMolecules ==
    {Mol(<<"C", x, y>>, {<<1, 2>>, <<1, 3>>}) : x \in {"H", "O"}, y \in {"H", "O"}}
    \cup {Mol(<<"O", x>>, {<<1, 2>>}) : x \in {"C", "H"}}

Input(m, c, ro, nr, d) ==
    [kind |-> m.kind, bonds |-> m.bonds, catalog |-> c, rorder |-> ro,
     nrev |-> nr, debug |-> d]

LibraryInputs ==
    {Input(m, "opls", ro, nr, d) :
        m \in Library \cup {Relabel(x) : x \in Library},
        ro \in {OplsOrder, Reverse(OplsOrder)}, nr \in BOOLEAN, d \in BOOLEAN}

SmallInputs == {Input(m, "opls", OplsOrder, FALSE, FALSE) : m \in SmallMolecules}

CatalogInputs ==
    UNION {{Input(ChainPair, c, ro, FALSE, d) :
               ro \in {DictOrder(c), Reverse(DictOrder(c))}, d \in BOOLEAN}
           : c \in {"chain", "chain_stable"}}
    \cup {Input(Methane, c, DictOrder(c), FALSE, FALSE) :
            c \in {"dup_element", "element_only", "unranked", "mutual_dup"}}
    \cup {Input(m, "mutual", ro, FALSE, FALSE) :
            m \in {Methane, MethanePort, Ethanol, Benzene, HydrogenCyanide},
            ro \in {DictOrder("mutual"), Reverse(DictOrder("mutual"))}}
    \cup {Input(m, "at_most", DictOrder("at_most"), FALSE, FALSE) :
            m \in AtMostMolecules}

Inputs == LibraryInputs \cup SmallInputs \cup CatalogInputs

-----------------------------------------------------------------------------
(* The checks of the rules against each other: lines 232-329. *)

\* The checks read the rules only, so each is given as a function of the
\* catalog c.

CatalogNames ==
    {"opls", "chain", "chain_stable", "race", "dup_element", "element_only",
     "mutual", "unranked", "mutual_dup", "at_most"}

\* a rule among the rules R on which the asserts of lines 239-262 or line
\* 265 raise
Unchecked(R) == \E r \in R : Len(r.elements) > 1 \/ Len(r.counts) # 1

\* supported_atom_types: the elements of the Element decorators of the rules R
supported_atom_types(R) == {ElementType(r) : r \in {x \in R : ElementType(x) # ""}}

\* pattern.count(neighbor_type); a pattern is given as the number of times
\* each element of supported_atom_types is in it
PatternCount(p, e) == IF e \in DOMAIN p THEN p[e] ELSE 0

\* the pattern is not removed by the Neighbors* decorator d
PatternKept(d, p) ==
    CASE d.op = "exactly" -> PatternCount(p, d.el) = d.n
      [] d.op = "at_least" -> PatternCount(p, d.el) >= d.n
      [] d.op = "at_most" -> PatternCount(p, d.el) <= d.n

\* p is one of combinations_with_replacement(supported_atom_types,
\* neighbor_count) and is not among the removed_patterns of rule r
InPatterns(r, p) ==
    /\ SumOver(DOMAIN p, p) = NeighborCountOf(r)
    /\ \A i \in 1..Len(r.cons) : PatternKept(r.cons[i], p)

\* all_patterns of rule r after difference_update(removed_patterns), T the
\* supported_atom_types
RulePatterns(T, r) == {p \in [T -> 0..NeighborCountOf(r)] : InPatterns(r, p)}

\* rule_matches of the rules R: the rules of every key (element_type, pattern)
rule_matches(R, T) ==
    [k \in UNION {{<<ElementType(r), p>> : p \in RulePatterns(T, r)} : r \in R} |->
        {r.id : r \in {x \in R : ElementType(x) = k[1] /\ InPatterns(x, k[2])}}]

\* G.edges(): an edge from every rule in rules to every rule it blacklists
GraphEdges(R, rules) ==
    UNION {{<<r.id, b>> : b \in r.bl} : r \in {x \in R : x.id \in rules}}

\* G.nodes(): add_edge adds the two ends of the edge
GraphNodes(E) == {e[1] : e \in E} \cup {e[2] : e \in E}

\* the nodes reached from the nodes S along the edges E, S included
RECURSIVE Reach(_, _)
Reach(E, S) ==
    LET T == S \cup {e[2] : e \in {x \in E : x[1] \in S}}
    IN  IF T = S THEN S ELSE Reach(E, T)

\* nx.descendants(G, n)
descendants(E, n) == Reach(E, {e[2] : e \in {x \in E : x[1] = n}}) \ {n}

\* nx.is_connected(G.to_undirected()), for a graph with a node
is_connected(E) ==
    LET U == E \cup {<<e[2], e[1]>> : e \in E}
        n == CHOOSE x \in GraphNodes(E) : TRUE
    IN  Reach(U, {n}) = GraphNodes(E)

\* nx.is_directed_acyclic_graph(G)
is_directed_acyclic_graph(E) ==
    \A n \in GraphNodes(E) :
        n \notin Reach(E, {e[2] : e \in {x \in E : x[1] = n}})

\* the nodes without descendants
Sinks(E) == {n \in GraphNodes(E) : descendants(E, n) = {}}

GraphWarning(m, k) == [msg |-> m, atom |-> 0, element |-> k[1], pattern |-> k[2]]

\* the warnings of lines 315-329 for the key k, E the edges of its graph
KeyWarnings(k, E) ==
    (IF is_connected(E) THEN <<>>
     ELSE <<GraphWarning("rule graph is not connected", k)>>)
    \o (IF is_directed_acyclic_graph(E) THEN <<>>
        ELSE <<GraphWarning("rule graph is not a DAG", k)>>)
    \o (IF Cardinality(Sinks(E)) > 1
        THEN <<GraphWarning("rule graph has multiple sinks", k)>>
        ELSE <<>>)

\* the keys matched by more than one rule
CheckedOf(rm) == {k \in DOMAIN rm : Cardinality(rm[k]) > 1}

\* what lines 293-329 do with the rules R, rm their rule_matches:
\* checked, the keys matched by more than one rule; null, those of them at
\* which nx.is_connected raises, the graph having no node; warned, the
\* warnings for each of the other keys
CheckGraphs(R, rm) ==
    [matches |-> rm,
     checked |-> CheckedOf(rm),
     null |-> {k \in CheckedOf(rm) : GraphEdges(R, rm[k]) = {}},
     warned |-> [k \in {x \in CheckedOf(rm) : GraphEdges(R, rm[x]) # {}} |->
                    KeyWarnings(k, GraphEdges(R, rm[k]))]]

CheckRules(R) ==
    IF Unchecked(R)
    THEN [matches |-> <<>>, checked |-> {}, null |-> {}, warned |-> <<>>]
    ELSE CheckGraphs(R, rule_matches(R, supported_atom_types(R)))

Validation(c) == CheckRules(Catalog(c))

Validated == [c \in CatalogNames |-> Validation(c)]

CheckedKeys == Validated[catalog].checked

NullGraphKeys == Validated[catalog].null

\* the warnings w holds for the keys S, the keys taken in one fixed order
RECURSIVE GraphWarnings(_, _)
GraphWarnings(w, S) ==
    IF S = {} THEN <<>>
    ELSE LET k == CHOOSE x \in S : TRUE
         IN  w[k] \o GraphWarnings(w, S \ {k})

-----------------------------------------------------------------------------
(* atomtypes_opls(compound, debug). *)

Unset == [tag |-> "unset", str |-> "", list |-> {}]
Str(x) == [tag |-> "str", str |-> x, list |-> {}]
List(S) == [tag |-> "list", str |-> "", list |-> S]

Warn(m, a) == [msg |-> m, atom |-> a]

ListLen(w, b, a) == Cardinality(w[a]) + Cardinality(b[a])

\* fault: a convergence test that overlooks a single new entry
ConvergedLoose(old, new) == new <= old + 1

\* fault: a loop whose break is never taken
ConvergedNever(old, new) == FALSE

\* "if old_len == new_len: break"
Converged(old, new) == old = new

\* fault: a loop that allows one pass more
ExhaustedLate(iter) == iter + 1 > max_iter

\* range(max_iter) is used up after the pass numbered iter
Exhausted(iter) == iter + 1 >= max_iter

\* fault: a loop that ends without a word when its passes are used up
LoopElseSilent(ws) == ws

\* the else of the for loop: warn("Reached maximum iterations. ...")
LoopElse(ws) == Append(ws, Warn("Reached maximum iterations", 0))

\* fault: a prepare that leaves the blacklist of the earlier run in place
prepareKeepBlacklist(w, b, a) == [w |-> {}, b |-> b[a]]

\* prepare(atom): the lists of atom a afterwards
prepare(w, b, a) == [w |-> {}, b |-> {}]

\* fault: a loop without the test for ports
IgnorePortNever(a) == FALSE

\* "if atom.kind == 'G': continue"
IgnorePort(a) == kind[a] = "G"

\* the exception that the checks of the decorators raise, "" if none:
\* the asserts on duplicate decorators, and
\* combinations_with_replacement(supported_atom_types, None)
RECURSIVE FirstFailure(_)
FirstFailure(ids) ==
    IF ids = <<>> THEN ""
    ELSE LET r == RuleOf(Head(ids))
         IN  IF Len(r.elements) > 1 \/ Len(r.counts) > 1 THEN "AssertionError"
             ELSE IF ~HasCount(r) THEN "TypeError"
             ELSE FirstFailure(Tail(ids))

ValidationFailure ==
    IF \E i \in 1..Len(rorder) : Len(RuleOf(rorder[i]).elements) > 1
    THEN "AssertionError"
    ELSE FirstFailure(rorder)

InitRun ==
    /\ rule_map = <<>>
    /\ neighbor_types_map = <<>>
    /\ pc = "build"
    /\ exc = ""
    /\ run = 1
    /\ iter_cnt = 0
    /\ ai = 1
    /\ ri = 1
    /\ ti = 1
    /\ old_len = 0
    /\ new_len = 0
    /\ wl = [a \in 1..Len(kind) |-> {}]
    /\ bl = [a \in 1..Len(kind) |-> {}]
    /\ opls_type = [a \in 1..Len(kind) |-> Unset]
    /\ warnings = <<>>
    /\ snap = <<wl, bl>>
    /\ hist = <<>>
    /\ prev = [wl |-> wl, bl |-> bl, opls_type |-> opls_type, stable |-> FALSE,
               passes |-> 0]
    /\ ring_atom = 0
    /\ ring_length = 0
    /\ rings = <<>>
    /\ current_path = <<>>
    /\ step_pos = <<>>
    /\ NoHierarchy

Init ==
    /\ \E inp \in Inputs :
          /\ kind = inp.kind
          /\ bonds = inp.bonds
          /\ catalog = inp.catalog
          /\ rorder = inp.rorder
          /\ nrev = inp.nrev
          /\ debug = inp.debug
    /\ InitRun

\* lines 194-227: the rules are entered into rule_map
BuildMap ==
    /\ pc = "build"
    /\ rule_map' = BuildRuleMap(rule_map, rorder)
    /\ warnings' = warnings \o NoElementWarnings(rorder)
    /\ pc' = "validate"
    /\ UNCHANGED <<molVars, ringVars, partVars, neighbor_types_map, exc, run, iter_cnt,
                   ai, ri, ti, old_len, new_len, wl, bl, opls_type, snap,
                   hist, prev>>

\* lines 232-329: the checks of the rules.  They raise on a rule with two
\* Element or two NeighborCount decorators and on a rule without
\* NeighborCount, and nx.is_connected raises at a key whose rules blacklist
\* nothing; rule_matches.items() may have passed any of the other keys by then.
ValidateCatalog ==
    /\ pc = "validate"
    /\ LET v == Validated[catalog]
       IN  IF ValidationFailure # ""
           THEN /\ pc' = "raised"
                /\ exc' = ValidationFailure
                /\ UNCHANGED warnings
           ELSE IF v.null # {}
           THEN /\ pc' = "raised"
                /\ exc' = "NetworkXPointlessConcept"
                /\ \E S \in SUBSET (v.checked \ v.null) :
                       warnings' = warnings \o GraphWarnings(v.warned, S)
           ELSE /\ pc' = "prepare"
                /\ exc' = exc
                /\ warnings' = warnings \o GraphWarnings(v.warned, v.checked)
    /\ UNCHANGED <<molVars, ringVars, partVars, rule_map, neighbor_types_map, run,
                   iter_cnt, ai, ri, ti, old_len, new_len, wl, bl, opls_type,
                   snap, hist, prev>>

\* lines 333-337: prepare(atom) for every atom, and the loop is entered
Prepare ==
    /\ pc = "prepare"
    /\ wl' = [a \in Atoms |-> prepare(wl, bl, a).w]
    /\ bl' = [a \in Atoms |-> prepare(wl, bl, a).b]
    /\ iter_cnt' = 0
    /\ ai' = 1
    /\ old_len' = 0
    /\ new_len' = 0
    /\ snap' = <<wl', bl'>>
    /\ hist' = <<>>
    /\ pc' = "atom"
    /\ UNCHANGED <<molVars, ringVars, partVars, rule_map, neighbor_types_map, exc, run,
                   ri, ti, opls_type, warnings, prev>>

\* lines 344-352, 361-365: the atom loop reaches atom ai
BeginAtom ==
    /\ pc = "atom"
    /\ ai <= Len(kind)
    /\ old_len' = old_len + ListLen(wl, bl, ai)
    /\ IF IgnorePort(ai)
       THEN /\ ai' = ai + 1
            /\ UNCHANGED <<pc, ri, new_len, warnings>>
       ELSE IF InRuleMap(kind[ai])
       THEN /\ pc' = "rule"
            /\ ri' = 1
            /\ UNCHANGED <<ai, new_len, warnings>>
       ELSE /\ warnings' = Append(warnings, Warn("No rule for atom kind", ai))
            /\ new_len' = new_len + ListLen(wl, bl, ai)
            /\ ai' = ai + 1
            /\ UNCHANGED <<pc, ri>>
    /\ UNCHANGED <<molVars, ringVars, partVars, rule_map, neighbor_types_map, exc, run,
                   iter_cnt, ti, wl, bl, opls_type, snap, hist, prev>>

\* fault: whitelist() and blacklist() add to the lists of the atom's
\* neighbours as well
RunRuleOnNeighbors ==
    /\ pc = "rule"
    /\ ri <= Len(Todo(ai))
    /\ LET res == run_rule(ai, Todo(ai)[ri], wl, bl, neighbor_types_map)
           nb == Range(neighbors(ai)) \cup {ai}
       IN  IF res.raised # ""
           THEN /\ pc' = "raised"
                /\ exc' = res.raised
                /\ UNCHANGED <<wl, bl, neighbor_types_map, ri>>
           ELSE /\ wl' = [a \in DOMAIN wl |->
                             IF a \in nb THEN wl[a] \cup (res.w \ wl[ai])
                             ELSE wl[a]]
                /\ bl' = [a \in DOMAIN bl |->
                             IF a \in nb THEN bl[a] \cup (res.b \ bl[ai])
                             ELSE bl[a]]
                /\ neighbor_types_map' = res.ntm
                /\ ri' = ri + 1
                /\ UNCHANGED <<pc, exc>>
    /\ UNCHANGED <<molVars, ringVars, partVars, rule_map, run, iter_cnt, ai, ti,
                   old_len, new_len, opls_type, warnings, snap, hist, prev>>

\* lines 353-358: run_rule(atom, rule) for the next rule of the atom
RunRule ==
    /\ pc = "rule"
    /\ ri <= Len(Todo(ai))
    /\ LET res == run_rule(ai, Todo(ai)[ri], wl, bl, neighbor_types_map)
       IN  IF res.raised # ""
           THEN /\ pc' = "raised"
                /\ exc' = res.raised
                /\ UNCHANGED <<wl, bl, neighbor_types_map, ri>>
           ELSE /\ wl' = [wl EXCEPT ![ai] = res.w]
                /\ bl' = [bl EXCEPT ![ai] = res.b]
                /\ neighbor_types_map' = res.ntm
                /\ ri' = ri + 1
                /\ UNCHANGED <<pc, exc>>
    /\ UNCHANGED <<molVars, ringVars, partVars, rule_map, run, iter_cnt, ai, ti,
                   old_len, new_len, opls_type, warnings, snap, hist, prev>>

\* lines 356-365: the rules of the atom are done
EndAtom ==
    /\ pc = "rule"
    /\ ri > Len(Todo(ai))
    /\ warnings' =
           IF <<kind[ai], Len(neighbors(ai))>> \in DOMAIN rule_map THEN warnings
           ELSE Append(warnings, Warn("No rule for n-neighbor atom", ai))
    /\ new_len' = new_len + ListLen(wl, bl, ai)
    /\ ai' = ai + 1
    /\ pc' = "atom"
    /\ UNCHANGED <<molVars, ringVars, partVars, rule_map, neighbor_types_map, exc, run,
                   iter_cnt, ri, ti, old_len, wl, bl, opls_type, snap, hist,
                   prev>>

\* lines 338-343, 367-371: the end of a pass
EndPass ==
    /\ pc = "atom"
    /\ ai > Len(kind)
    /\ hist' = Append(hist, <<wl, bl>> # snap)
    /\ IF Converged(old_len, new_len)
       THEN /\ pc' = "reduce"
            /\ ti' = 1
            /\ UNCHANGED <<iter_cnt, ai, old_len, new_len, snap, warnings>>
       ELSE IF Exhausted(iter_cnt)
       THEN /\ warnings' = LoopElse(warnings)
            /\ pc' = "reduce"
            /\ ti' = 1
            /\ UNCHANGED <<iter_cnt, ai, old_len, new_len, snap>>
       ELSE /\ iter_cnt' = iter_cnt + 1
            /\ ai' = 1
            /\ old_len' = 0
            /\ new_len' = 0
            /\ snap' = <<wl, bl>>
            /\ UNCHANGED <<pc, ti, warnings>>
    /\ UNCHANGED <<molVars, ringVars, partVars, rule_map, neighbor_types_map, exc, run,
                   ri, wl, bl, opls_type, prev>>

\* fault: a reducer that does not subtract the blacklist
ReducedNoBlacklist(a, w, b, dbg) ==
    LET cand == w[a]
    IN  IF dbg THEN List(cand)
        ELSE IF Cardinality(cand) = 1 THEN Str(CHOOSE x \in cand : TRUE)
        ELSE Str(Sentinel)

\* fault: a reducer that writes nothing when the candidates are not one
ReducedNoSentinel(a, w, b, dbg) ==
    LET cand == w[a] \ b[a]
    IN  IF dbg THEN List(cand)
        ELSE IF Cardinality(cand) = 1 THEN Str(CHOOSE x \in cand : TRUE)
        ELSE Unset

\* fault: a debug branch that is taken only when there is something to list
ReducedDebugNonEmpty(a, w, b, dbg) ==
    LET cand == w[a] \ b[a]
    IN  IF dbg /\ cand # {} THEN List(cand)
        ELSE IF Cardinality(cand) = 1 THEN Str(CHOOSE x \in cand : TRUE)
        ELSE Str(Sentinel)

\* the value lines 374-385 write into atom.extras['opls_type']
Reduced(a, w, b, dbg) ==
    LET cand == w[a] \ b[a]
    IN  IF dbg THEN List(cand)
        ELSE IF Cardinality(cand) = 1 THEN Str(CHOOSE x \in cand : TRUE)
        ELSE Str(Sentinel)

\* fault: the reducer takes the blacklist out of the whitelist itself
\* (difference_update) instead of building a new set
ReduceAtomInPlace ==
    /\ pc = "reduce"
    /\ ti <= Len(atoms)
    /\ LET a == atoms[ti]
           cand == wl[a] \ bl[a]
       IN  /\ opls_type' = [opls_type EXCEPT ![a] = Reduced(a, wl, bl, debug)]
           /\ wl' = [wl EXCEPT ![a] = cand]
           /\ warnings' =
                  IF ~debug /\ Cardinality(cand) # 1
                  THEN Append(warnings,
                              [msg |-> "CHECK YOUR TOPOLOGY", atom |-> a,
                               index |-> ti - 1, kind |-> kind[a],
                               types |-> cand])
                  ELSE warnings
    /\ ti' = ti + 1
    /\ UNCHANGED <<molVars, ringVars, partVars, rule_map, neighbor_types_map, pc, exc,
                   run, iter_cnt, ai, ri, old_len, new_len, bl, snap,
                   hist, prev>>

\* lines 373-385: one round of the reducer loop over compound.atoms
ReduceAtom ==
    /\ pc = "reduce"
    /\ ti <= Len(atoms)
    /\ LET a == atoms[ti]
           cand == wl[a] \ bl[a]
       IN  /\ opls_type' = [opls_type EXCEPT ![a] = Reduced(a, wl, bl, debug)]
           /\ warnings' =
                  IF ~debug /\ Cardinality(cand) # 1
                  THEN Append(warnings,
                              [msg |-> "CHECK YOUR TOPOLOGY", atom |-> a,
                               index |-> ti - 1, kind |-> kind[a],
                               types |-> cand])
                  ELSE warnings
    /\ ti' = ti + 1
    /\ UNCHANGED <<molVars, ringVars, partVars, rule_map, neighbor_types_map, pc, exc,
                   run, iter_cnt, ai, ri, old_len, new_len, wl, bl, snap,
                   hist, prev>>

\* atomtypes_opls returns
Return ==
    /\ pc = "reduce"
    /\ ti > Len(atoms)
    /\ pc' = "done"
    /\ UNCHANGED <<molVars, ringVars, partVars, rule_map, neighbor_types_map, exc, run,
                   iter_cnt, ai, ri, ti, old_len, new_len, wl, bl, opls_type,
                   warnings, snap, hist, prev>>

Next ==
    \/ BuildMap
    \/ ValidateCatalog
    \/ Prepare
    \/ BeginAtom
    \/ RunRule
    \/ EndAtom
    \/ EndPass
    \/ ReduceAtom
    \/ Return

Spec == Init /\ [][Next]_vars

-----------------------------------------------------------------------------
(* Calling atomtypes_opls again on the same compound. *)

\* compounds of at most MaxRerunAtoms atoms
RerunSmall == {m \in SmallMolecules : Len(m.kind) <= MaxRerunAtoms}

RerunInputs ==
    {Input(m, "opls", ro, nr, FALSE) :
        m \in Library \cup {Relabel(x) : x \in Library},
        ro \in {OplsOrder, Reverse(OplsOrder)}, nr \in BOOLEAN}
    \cup {Input(m, "opls", OplsOrder, FALSE, FALSE) : m \in RerunSmall}

InitRerun ==
    /\ \E inp \in RerunInputs :
          /\ kind = inp.kind
          /\ bonds = inp.bonds
          /\ catalog = inp.catalog
          /\ rorder = inp.rorder
          /\ nrev = inp.nrev
          /\ debug = inp.debug
    /\ InitRun

\* the caller calls atomtypes_opls(compound) once more
Rerun ==
    /\ pc = "done"
    /\ run < MaxRuns
    /\ run' = run + 1
    /\ prev' = [wl |-> wl, bl |-> bl, opls_type |-> opls_type,
                stable |-> ~hist[Len(hist)], passes |-> Len(hist)]
    /\ pc' = "build"
    /\ UNCHANGED <<molVars, ringVars, partVars, rule_map, neighbor_types_map, exc,
                   iter_cnt, ai, ri, ti, old_len, new_len, wl, bl, opls_type,
                   warnings, snap, hist>>

NextRerun == Next \/ Rerun

SpecRerun == InitRerun /\ [][NextRerun]_vars

-----------------------------------------------------------------------------
(* One compound typed twice, in two processes that differ in the order of
   Compound.atoms and of rule_number_to_rule.items(). *)

OrderInputs ==
    {Input(m, "opls", OplsOrder, nr, FALSE) : m \in Library, nr \in BOOLEAN}
    \cup {Input(m, "opls", OplsOrder, FALSE, FALSE) : m \in RerunSmall}
    \cup {Input(ChainPair, c, DictOrder(c), FALSE, FALSE) : c \in {"chain", "race"}}

InitOrder ==
    /\ \E inp \in OrderInputs :
          /\ kind = inp.kind
          /\ bonds = inp.bonds
          /\ catalog = inp.catalog
          /\ rorder = inp.rorder
          /\ nrev = inp.nrev
          /\ debug = inp.debug
    /\ InitRun

\* The run is over; the same compound is typed in a new process in which the
\* atoms were added in the opposite order (ra), the rules are listed in the
\* opposite order (rr), or both.  Every atom keeps the order of its bonds.
\* prev keeps the result of the first process under the new atom numbers.
Reorder ==
    /\ pc = "done"
    /\ run = 1
    /\ \E ra, rr \in BOOLEAN :
          /\ ra \/ rr
          /\ kind' = IF ra THEN Relabel(Mol(kind, bonds)).kind ELSE kind
          /\ bonds' = IF ra THEN Relabel(Mol(kind, bonds)).bonds ELSE bonds
          /\ nrev' = IF ra THEN ~nrev ELSE nrev
          /\ rorder' = IF rr THEN Reverse(rorder) ELSE rorder
          /\ prev' = [wl |-> IF ra THEN Reverse(wl) ELSE wl,
                      bl |-> IF ra THEN Reverse(bl) ELSE bl,
                      opls_type |-> IF ra THEN Reverse(opls_type) ELSE opls_type,
                      stable |-> ~hist[Len(hist)], passes |-> Len(hist)]
    /\ run' = 2
    /\ rule_map' = <<>>
    /\ neighbor_types_map' = <<>>
    /\ pc' = "build"
    /\ iter_cnt' = 0
    /\ ai' = 1
    /\ ri' = 1
    /\ ti' = 1
    /\ old_len' = 0
    /\ new_len' = 0
    /\ wl' = [a \in Atoms |-> {}]
    /\ bl' = [a \in Atoms |-> {}]
    /\ opls_type' = [a \in Atoms |-> Unset]
    /\ warnings' = <<>>
    /\ snap' = <<wl', bl'>>
    /\ hist' = <<>>
    /\ UNCHANGED <<catalog, debug, exc, ringVars, partVars>>

NextOrder == Next \/ Reorder

SpecOrder == InitOrder /\ [][NextOrder]_vars

-----------------------------------------------------------------------------
(* One compound typed twice, in two processes that differ in the order in
   which the sets Atom.bonds are iterated. *)

\* The run is over; the same compound, with the same atoms and rules in the
\* same order, is typed in a new process in which every set Atom.bonds is
\* iterated in the opposite order.  prev keeps the result of the first.
ReorderBonds ==
    /\ pc = "done"
    /\ run = 1
    /\ nrev' = ~nrev
    /\ prev' = [wl |-> wl, bl |-> bl, opls_type |-> opls_type,
                stable |-> ~hist[Len(hist)], passes |-> Len(hist)]
    /\ run' = 2
    /\ rule_map' = <<>>
    /\ neighbor_types_map' = <<>>
    /\ pc' = "build"
    /\ iter_cnt' = 0
    /\ ai' = 1
    /\ ri' = 1
    /\ ti' = 1
    /\ old_len' = 0
    /\ new_len' = 0
    /\ wl' = [a \in Atoms |-> {}]
    /\ bl' = [a \in Atoms |-> {}]
    /\ opls_type' = [a \in Atoms |-> Unset]
    /\ warnings' = <<>>
    /\ snap' = <<wl', bl'>>
    /\ hist' = <<>>
    /\ UNCHANGED <<kind, bonds, catalog, rorder, debug, exc, ringVars, partVars>>

NextBonds == Next \/ ReorderBonds

SpecBonds == InitOrder /\ [][NextBonds]_vars

-----------------------------------------------------------------------------
(* The same compound typed with debug=False and then, in a new process,   *)
(* with debug=True.                                                        *)

\* The run with debug=False is over; atomtypes_opls(compound, debug=True)
\* is called on the same compound in a new process.
Redebug ==
    /\ pc = "done"
    /\ run = 1
    /\ ~debug
    /\ debug' = TRUE
    /\ prev' = [wl |-> wl, bl |-> bl, opls_type |-> opls_type,
                stable |-> ~hist[Len(hist)], passes |-> Len(hist)]
    /\ run' = 2
    /\ rule_map' = <<>>
    /\ neighbor_types_map' = <<>>
    /\ pc' = "build"
    /\ iter_cnt' = 0
    /\ ai' = 1
    /\ ri' = 1
    /\ ti' = 1
    /\ old_len' = 0
    /\ new_len' = 0
    /\ wl' = [a \in Atoms |-> {}]
    /\ bl' = [a \in Atoms |-> {}]
    /\ opls_type' = [a \in Atoms |-> Unset]
    /\ warnings' = <<>>
    /\ snap' = <<wl', bl'>>
    /\ hist' = <<>>
    /\ UNCHANGED <<kind, bonds, nrev, catalog, rorder, exc, ringVars, partVars>>

NextDebug == Next \/ Redebug

SpecDebug == InitOrder /\ [][NextDebug]_vars

-----------------------------------------------------------------------------
(* Compound.remove(atom) between two calls of atomtypes_opls. *)

\* the sequence s without its entry x
Drop(s, x) == [i \in 1..(Len(s) - 1) |-> s[IF i < x THEN i ELSE i + 1]]

\* the number of atom i once atom x is gone
Renumber(x, i) == IF i > x THEN i - 1 ELSE i

\* Compound._remove_bonds: the bonds of the atoms left
BondsWithout(x) ==
    {<<Renumber(x, b[1]), Renumber(x, b[2])>> : b \in bonds \ AtomBonds(x)}

\* neighbor_types_map when atom x is gone: the entries of the atoms left are
\* kept as they are
CacheWithout(ntm, x) ==
    [i \in {Renumber(x, j) : j \in (DOMAIN ntm) \ {x}} |->
        ntm[IF i < x THEN i ELSE i + 1]]

EditInputs ==
    {Input(m, "opls", OplsOrder, FALSE, FALSE) :
        m \in {Methane, MethanePort, Methylamine, Ethanol, Propene, Benzene}
              \cup RerunSmall}

InitEdit ==
    /\ \E inp \in EditInputs :
          /\ kind = inp.kind
          /\ bonds = inp.bonds
          /\ catalog = inp.catalog
          /\ rorder = inp.rorder
          /\ nrev = inp.nrev
          /\ debug = inp.debug
    /\ InitRun

\* compound.remove(x), x an atom of the compound, after a run
RemoveAtom ==
    /\ pc = "done"
    /\ run < MaxRuns
    /\ Len(kind) > 1
    /\ Len(prev.wl) - Len(kind) < MaxRemoved
    /\ \E x \in Atoms :
          /\ kind' = Drop(kind, x)
          /\ bonds' = BondsWithout(x)
          /\ wl' = Drop(wl, x)
          /\ bl' = Drop(bl, x)
          /\ opls_type' = Drop(opls_type, x)
          /\ neighbor_types_map' = CacheWithout(neighbor_types_map, x)
    /\ snap' = <<wl', bl'>>
    /\ UNCHANGED <<nrev, catalog, rorder, debug, ringVars, partVars, rule_map, pc, exc,
                   run, iter_cnt, ai, ri, ti, old_len, new_len, warnings,
                   hist, prev>>

NextEdit == Next \/ Rerun \/ RemoveAtom

SpecEdit == InitEdit /\ [][NextEdit]_vars

-----------------------------------------------------------------------------
(* Compound.add and Compound.remove on a containment hierarchy.            *)
(*                                                                         *)
(* The operators below work on a record h of the hierarchy's fields, so    *)
(* that a call that calls other methods is one step.                       *)

Hierarchy ==
    [parts |-> parts, parent |-> parent, atom_bonds |-> atom_bonds,
     labels |-> labels, label_lists |-> label_lists, referrers |-> referrers,
     raised |-> ""]

\* the order in which a set of parts is iterated: one order and its reverse
PartKey(p) ==
    (CASE p.cls = "Atom" -> 100 [] p.cls = "Bond" -> 200 [] OTHER -> 300)
    + 10 * p.id + p.to

RECURSIVE SortedParts(_)
SortedParts(S) ==
    IF S = {} THEN <<>>
    ELSE LET m == CHOOSE x \in S : \A y \in S : PartKey(x) <= PartKey(y)
         IN  <<m>> \o SortedParts(S \ {m})

Iterate(S, rev) == IF rev THEN Reverse(SortedParts(S)) ELSE SortedParts(S)

\* Bond.other_atom
OtherAtomObj(b, a) ==
    IF a.id = b.id THEN Part("Atom", b.to, 0) ELSE Part("Atom", b.id, 0)

BondsOfAtom(b) == {Part("Atom", b.id, 0), Part("Atom", b.to, 0)}

\* the Bond object has been constructed
Constructed(b) == \E a \in AtomObjs : b \in atom_bonds[a]

\* PartMixin.ancestors: the compounds above part x
RECURSIVE ancestors(_, _)
ancestors(h, x) ==
    IF h.parent[x] = None THEN {}
    ELSE {h.parent[x]} \cup ancestors(h, h.parent[x])

\* the label "name[count]"
Indexed(count) == <<"q[0]", "q[1]", "q[2]", "q[3]">>[count + 1]

\* the dict d with d[key] = v
WithEntry(d, key, v) ==
    [k \in (DOMAIN d) \cup {key} |-> IF k = key THEN v ELSE d[k]]

\* the dict d without the keys K
WithoutKeys(d, K) == [k \in (DOMAIN d) \ K |-> d[k]]

\* c.add(new_part, label, containment=True, replace): one part
add(h, c, new_part, label, replace) ==
    IF h.parent[new_part] # None THEN [h EXCEPT !.raised = "AssertionError"]
    ELSE LET h1 == [h EXCEPT !.parts[c] = @ \cup {new_part},
                             !.parent[new_part] = c]
             listed == label = "q[$]"
             h2 == IF listed
                   THEN [h1 EXCEPT !.label_lists[c] = Append(@, new_part)]
                   ELSE h1
             key == IF listed THEN Indexed(Len(h1.label_lists[c])) ELSE label
         IN  IF label = ""
             THEN [h1 EXCEPT !.referrers[new_part] = @ \cup {c}]
             ELSE IF ~replace /\ key \in DOMAIN h2.labels[c]
             THEN [h2 EXCEPT !.raised = "Exception"]
             ELSE [h2 EXCEPT !.labels[c] = WithEntry(@, key, new_part),
                             !.referrers[new_part] = @ \cup {c}]

\* c.add(list): "Support batch add via lists, tuples and sets."
RECURSIVE addList(_, _, _)
addList(h, c, elems) ==
    IF elems = <<>> THEN h
    ELSE IF h.parent[Head(elems)] # None
    THEN [h EXCEPT !.raised = "AssertionError"]
    ELSE LET h1 == add(h, c, Head(elems), "", FALSE)
         IN  addList([h1 EXCEPT !.parent[Head(elems)] = c], c, Tail(elems))

\* Compound._remove_references
remove_references(h, removed_part) ==
    LET h1 == [h EXCEPT !.parent[removed_part] = None]
        Looked == {r \in h1.referrers[removed_part] :
                      removed_part \notin ancestors(h1, r)}
        Hits(r) == {k \in DOMAIN h1.labels[r] : h1.labels[r][k] = removed_part}
        referrers_to_remove == {r \in Looked : Hits(r) # {}}
    IN  [h1 EXCEPT
            !.labels = [r \in DOMAIN h1.labels |->
                           IF r \in Looked
                           THEN WithoutKeys(h1.labels[r], Hits(r))
                           ELSE h1.labels[r]],
            !.referrers[removed_part] = @ \ referrers_to_remove]

RECURSIVE remove(_, _, _, _, _)
RECURSIVE remove_bonds(_, _, _, _, _)
RECURSIVE RemovedParts(_, _, _, _)
RECURSIVE SubCompounds(_, _, _, _, _, _)

\* Compound._remove_bonds(removed_part), bs the bonds its loop has yet to
\* take.  set.remove raises KeyError when the other atom does not hold the
\* bond.
remove_bonds(h, removed_part, bs, rev, strict) ==
    IF bs = <<>> \/ h.raised # "" THEN h
    ELSE LET bond == Head(bs)
             other == OtherAtomObj(bond, removed_part)
         IN  IF bond \notin h.atom_bonds[other]
             THEN [h EXCEPT !.raised = "KeyError"]
             ELSE LET h1 == [h EXCEPT !.atom_bonds[other] = @ \ {bond}]
                      h2 == IF h1.parent[bond] # None
                            THEN remove(h1, h1.parent[bond], {bond}, rev, strict)
                            ELSE h1
                  IN  remove_bonds(h2, removed_part, Tail(bs), rev, strict)

\* "for removed_part in intersection"
RemovedParts(h, xs, rev, strict) ==
    IF xs = <<>> \/ h.raised # "" THEN h
    ELSE LET x == Head(xs)
             h1 == IF x.cls = "Atom"
                   THEN remove_bonds(h, x, Iterate(h.atom_bonds[x], rev), rev,
                                     strict)
                   ELSE h
         IN  IF h1.raised # "" THEN h1
             ELSE RemovedParts(remove_references(h1, x), Tail(xs), rev, strict)

\* "for part in self.parts": the calls of remove on the compounds among the
\* parts.  A call that takes a part out of self.parts changes the set under
\* the loop; whether the loop then goes on or raises RuntimeError is up to
\* the OrderedSet in use (strict).
SubCompounds(h, c, subs, objs, rev, strict) ==
    IF subs = <<>> \/ h.raised # "" THEN h
    ELSE LET h1 == remove(h, Head(subs), objs, rev, strict)
         IN  IF h1.raised = "" /\ h1.parts[c] # h.parts[c] /\ strict
             THEN [h1 EXCEPT !.raised = "RuntimeError"]
             ELSE SubCompounds(h1, c, Tail(subs), objs, rev, strict)

\* c.remove(objs_to_remove)
remove(h, c, objs_to_remove, rev, strict) ==
    IF objs_to_remove = {} THEN h
    ELSE LET intersection == objs_to_remove \cap h.parts[c]
             rest == objs_to_remove \ intersection
             h1 == [h EXCEPT !.parts[c] = @ \ intersection]
             h2 == RemovedParts(h1, Iterate(intersection, rev), rev, strict)
         IN  IF h2.raised # "" \/ rest = {} THEN h2
             ELSE SubCompounds(h2, c,
                               Iterate({q \in h2.parts[c] : q.cls = "Compound"},
                                       rev),
                               rest, rev, strict)

\* the fields of the hierarchy become those of h
Becomes(h) ==
    /\ parts' = h.parts
    /\ parent' = h.parent
    /\ atom_bonds' = h.atom_bonds
    /\ labels' = h.labels
    /\ label_lists' = h.label_lists
    /\ referrers' = h.referrers
    /\ raised' = h.raised

\* the compounds and atoms exist, no part has a parent, no atom a bond
InitParts ==
    /\ parts = [c \in CompoundObjs |-> {}]
    /\ parent = [x \in Objs |-> None]
    /\ atom_bonds = [a \in AtomObjs |-> {}]
    /\ labels = [c \in CompoundObjs |-> <<>>]
    /\ label_lists = [c \in CompoundObjs |-> <<>>]
    /\ referrers = [x \in Objs |-> {}]
    /\ raised = ""
    /\ calls = 0
    /\ kind = <<>>
    /\ bonds = {}
    /\ nrev = FALSE
    /\ catalog = "opls"
    /\ rorder = OplsOrder
    /\ debug = FALSE
    /\ rule_map = <<>>
    /\ neighbor_types_map = <<>>
    /\ pc = "edit"
    /\ exc = ""
    /\ run = 0
    /\ iter_cnt = 0
    /\ ai = 1
    /\ ri = 1
    /\ ti = 1
    /\ old_len = 0
    /\ new_len = 0
    /\ wl = <<>>
    /\ bl = <<>>
    /\ opls_type = <<>>
    /\ warnings = <<>>
    /\ snap = <<wl, bl>>
    /\ hist = <<>>
    /\ prev = [wl |-> wl, bl |-> bl, opls_type |-> opls_type, stable |-> FALSE,
               passes |-> 0]
    /\ ring_atom = 0
    /\ ring_length = 0
    /\ rings = <<>>
    /\ current_path = <<>>
    /\ step_pos = <<>>

typerFrame == <<molVars, ringVars, rule_map, neighbor_types_map, pc, exc, run,
                iter_cnt, ai, ri, ti, old_len, new_len, wl, bl, opls_type,
                warnings, snap, hist, prev>>

\* Bond(atom1, atom2)
NewBond ==
    /\ pc = "edit"
    /\ calls < MaxCalls
    /\ calls' = calls + 1
    /\ \E b \in BondObjs :
          /\ ~Constructed(b)
          /\ atom_bonds' = [a \in AtomObjs |->
                               IF a \in BondsOfAtom(b) THEN atom_bonds[a] \cup {b}
                               ELSE atom_bonds[a]]
    /\ raised' = ""
    /\ UNCHANGED <<typerFrame, parts, parent, labels, label_lists, referrers>>

\* the labels add is called with; "" is None
LabelArgs == {"", "p", "q[$]", "q[0]"}

\* the parts c.add may be given: a compound made after c, an atom, a
\* constructed bond
Addable(c) ==
    {x \in CompoundObjs : x.id > c.id} \cup AtomObjs
    \cup {b \in BondObjs : Constructed(b)}

\* c.add(new_part, label, replace=replace)
Add ==
    /\ pc = "edit"
    /\ calls < MaxCalls
    /\ calls' = calls + 1
    /\ \E c \in CompoundObjs, label \in LabelArgs, replace \in BOOLEAN :
          \E new_part \in Addable(c) :
              /\ label = "q[$]" => Len(label_lists[c]) < MaxListed
              /\ label # "" => new_part \in AtomObjs
              /\ replace => label # ""
              /\ Becomes(add(Hierarchy, c, new_part, label, replace))
    /\ UNCHANGED typerFrame

\* c.add([atom, atom])
AddList ==
    /\ pc = "edit"
    /\ calls < MaxCalls
    /\ calls' = calls + 1
    /\ \E c \in CompoundObjs :
          \E x, y \in AtomObjs :
              /\ x # y
              /\ Becomes(addList(Hierarchy, c, <<x, y>>))
    /\ UNCHANGED typerFrame

\* c.remove(part) and c.remove([atom, atom])
Remove ==
    /\ pc = "edit"
    /\ calls < MaxCalls
    /\ calls' = calls + 1
    /\ \E c \in CompoundObjs, rev \in BOOLEAN, strict \in BOOLEAN :
          \E objs_to_remove \in {{x} : x \in Addable(c)} \cup {AtomObjs} :
              Becomes(remove(Hierarchy, c, objs_to_remove, rev, strict))
    /\ UNCHANGED typerFrame

NextParts == NewBond \/ Add \/ AddList \/ Remove

SpecParts == InitParts /\ [][NextParts]_vars

-----------------------------------------------------------------------------
(* Rings(atom, ring_length) on its own. *)

\* graphs of at most MaxRingAtoms carbons, one Bond per bonded pair
RingGraphs ==
    UNION {{Mol([i \in 1..n |-> "C"], b) :
                b \in SUBSET {<<i, j>> \in (1..n) \X (1..n) : i < j}}
           : n \in 1..MaxRingAtoms}

InitRings ==
    /\ \E m \in RingGraphs \cup {Benzene, Biphenyl, EtheneTwoBonds} :
          /\ kind = m.kind
          /\ bonds = m.bonds
          /\ ring_atom \in 1..Len(m.kind)
    /\ ring_length \in 1..MaxRingLength
    /\ nrev \in BOOLEAN
    /\ rings = <<>>
    /\ current_path = <<>>
    /\ step_pos = <<>>
    /\ NoHierarchy
    /\ pc = "ring_start"
    /\ catalog = "opls"
    /\ rorder = OplsOrder
    /\ debug = FALSE
    /\ rule_map = <<>>
    /\ neighbor_types_map = <<>>
    /\ exc = ""
    /\ run = 0
    /\ iter_cnt = 0
    /\ ai = 1
    /\ ri = 1
    /\ ti = 1
    /\ old_len = 0
    /\ new_len = 0
    /\ wl = [a \in 1..Len(kind) |-> {}]
    /\ bl = [a \in 1..Len(kind) |-> {}]
    /\ opls_type = [a \in 1..Len(kind) |-> Unset]
    /\ warnings = <<>>
    /\ snap = <<wl, bl>>
    /\ hist = <<>>
    /\ prev = [wl |-> wl, bl |-> bl, opls_type |-> opls_type, stable |-> FALSE,
               passes |-> 0]

\* Rings(ring_atom, ring_length) is constructed
FindRings ==
    /\ pc = "ring_start"
    /\ rings' = Rings(ring_atom, ring_length)
    /\ pc' = "ring_done"
    /\ UNCHANGED <<molVars, rule_map, neighbor_types_map, exc, run, iter_cnt,
                   ai, ri, ti, old_len, new_len, wl, bl, opls_type, warnings,
                   snap, hist, prev, ring_atom, ring_length, current_path,
                   step_pos, partVars>>

NextRings == FindRings

SpecRings == InitRings /\ [][NextRings]_vars

-----------------------------------------------------------------------------
(* Rings(atom, ring_length) call by call: every statement of __init__ and  *)
(* step that touches current_path or rings is one step.  The call of step  *)
(* that handles current_path[k] is the k-th active call; step_pos[k] is    *)
(* the neighbour its loop takes next.                                      *)

\* the argument atom of the innermost active call of step
StepAtom == current_path[Len(current_path)]

\* "n" of the innermost loop
StepN == neighbors(StepAtom)[step_pos[Len(step_pos)]]

\* the innermost loop moves on to its next neighbour
Continue == [step_pos EXCEPT ![Len(step_pos)] = @ + 1]

InStepLoop ==
    /\ pc = "ring_step"
    /\ step_pos # <<>>
    /\ Len(neighbors(StepAtom)) > 1
    /\ step_pos[Len(step_pos)] <= Len(neighbors(StepAtom))

searchFrame == <<molVars, rule_map, neighbor_types_map, exc, run, iter_cnt,
                 ai, ri, ti, old_len, new_len, wl, bl, opls_type, warnings,
                 snap, hist, prev, ring_atom, ring_length, partVars>>

\* Rings.__init__ up to the call of step
RingsInit ==
    /\ pc = "ring_start"
    /\ rings' = <<>>
    /\ current_path' = <<ring_atom>>
    /\ step_pos' = <<1>>
    /\ pc' = "ring_step"
    /\ UNCHANGED searchFrame

\* "Found a dead end."
DeadEnd ==
    /\ pc = "ring_step"
    /\ step_pos # <<>>
    /\ Len(neighbors(StepAtom)) <= 1
    /\ current_path' = SubSeq(current_path, 1, Len(current_path) - 1)
    /\ step_pos' = SubSeq(step_pos, 1, Len(step_pos) - 1)
    /\ UNCHANGED <<searchFrame, pc, rings>>

\* "Check to see if we found a ring."
StepRing ==
    /\ InStepLoop
    /\ Len(current_path) > 2 /\ StepN = current_path[1]
    /\ rings' = Append(rings, current_path)
    /\ step_pos' = Continue
    /\ UNCHANGED <<searchFrame, pc, current_path>>

\* "Prevent stepping backwards."
StepBack ==
    /\ InStepLoop
    /\ ~(Len(current_path) > 2 /\ StepN = current_path[1])
    /\ StepN \in Range(current_path)
    /\ step_pos' = Continue
    /\ UNCHANGED <<searchFrame, pc, current_path, rings>>

\* fault: the search steps on whatever the length of the path
StepDeeperUncapped ==
    /\ InStepLoop
    /\ ~(Len(current_path) > 2 /\ StepN = current_path[1])
    /\ StepN \notin Range(current_path)
    /\ current_path' = Append(current_path, StepN)
    /\ step_pos' = Append(Continue, 1)
    /\ UNCHANGED <<searchFrame, pc, rings>>

\* "Take another step."
StepDeeper ==
    /\ InStepLoop
    /\ ~(Len(current_path) > 2 /\ StepN = current_path[1])
    /\ StepN \notin Range(current_path)
    /\ Len(current_path) < ring_length
    /\ current_path' = Append(current_path, StepN)
    /\ step_pos' = Append(Continue, 1)
    /\ UNCHANGED <<searchFrame, pc, rings>>

\* "Reached max length."
StepMaxLength ==
    /\ InStepLoop
    /\ ~(Len(current_path) > 2 /\ StepN = current_path[1])
    /\ StepN \notin Range(current_path)
    /\ ~(Len(current_path) < ring_length)
    /\ step_pos' = Continue
    /\ UNCHANGED <<searchFrame, pc, current_path, rings>>

\* "Finished looping over all neighbors."
StepLoopEnd ==
    /\ pc = "ring_step"
    /\ step_pos # <<>>
    /\ Len(neighbors(StepAtom)) > 1
    /\ step_pos[Len(step_pos)] > Len(neighbors(StepAtom))
    /\ current_path' = SubSeq(current_path, 1, Len(current_path) - 1)
    /\ step_pos' = SubSeq(step_pos, 1, Len(step_pos) - 1)
    /\ UNCHANGED <<searchFrame, pc, rings>>

\* the outermost call of step has returned: __init__ returns
RingsReturn ==
    /\ pc = "ring_step"
    /\ step_pos = <<>>
    /\ pc' = "ring_done"
    /\ UNCHANGED <<searchFrame, rings, current_path, step_pos>>

NextSearch ==
    \/ RingsInit
    \/ DeadEnd
    \/ StepRing
    \/ StepBack
    \/ StepDeeper
    \/ StepMaxLength
    \/ StepLoopEnd
    \/ RingsReturn

\* some statement of the search can run: the call has not returned
SearchRunning == pc # "ring_done"

\* SearchRunning is ENABLED <<NextSearch>>_vars
SearchNeverStuck == SearchRunning <=> ENABLED <<NextSearch>>_vars

\* The interpreter runs a call to its end: a statement that can run does
\* run.  This is WF_vars(NextSearch), with SearchRunning written for
\* ENABLED <<NextSearch>>_vars.
SearchFairness == []<>(~SearchRunning) \/ []<><<NextSearch>>_vars

SpecSearch == InitRings /\ [][NextSearch]_vars /\ SearchFairness

-----------------------------------------------------------------------------
(* Properties. *)

NonGhost == {a \in Atoms : kind[a] # "G"}

Candidates(a) == wl[a] \ bl[a]

MaxIterWarned ==
    \E i \in 1..Len(warnings) : warnings[i].msg = "Reached maximum iterations"

\* C1 as stated: after any typing run every non-ghost atom carries the
\* unique element of (whitelist - blacklist) if there is exactly one, and the
\* sentinel 'XXX' otherwise; a written label is always a candidate.
C1_AnyRun ==
    pc = "done" =>
        \A a \in NonGhost :
            /\ opls_type[a].tag = "str"
            /\ Cardinality(Candidates(a)) = 1 => opls_type[a].str \in Candidates(a)
            /\ Cardinality(Candidates(a)) # 1 => opls_type[a].str = Sentinel
            /\ opls_type[a].str # Sentinel =>
                   opls_type[a].str \in wl[a] /\ opls_type[a].str \notin bl[a]

\* C1, amended: the same for every typing run with debug=False (with
\* debug=True the list of candidates is written instead).
C1_Reduction == ~debug => C1_AnyRun

C1_Witness ==
    /\ pc = "done"
    /\ ~debug
    /\ \E a \in NonGhost :
           Cardinality(Candidates(a)) = 1 /\ wl[a] \cap bl[a] # {}
    /\ \E a \in NonGhost :
           Cardinality(Candidates(a)) > 1 /\ opls_type[a] = Str(Sentinel)

\* C2: from the initialisation of the lists to the end of the run, every
\* step leaves every atom's whitelist and blacklist a superset of what it was.
C2_Monotone ==
    [][(pc \in {"atom", "rule", "reduce"}) =>
          (\A a \in Atoms : wl[a] \subseteq wl'[a] /\ bl[a] \subseteq bl'[a])]_vars

C2_Witness ==
    /\ pc = "done"
    /\ Len(hist) >= 4
    /\ \E a \in Atoms : Cardinality(wl[a]) >= 3 /\ Cardinality(bl[a]) >= 3

\* C3: the loop never starts a pass beyond the tenth; the end of a pass
\* leads to the reducer or to the next pass, and the end of the tenth pass
\* leads to the reducer, stabilised or not.
C3_AtMostMaxIter ==
    /\ [](iter_cnt < 10 /\ Len(hist) <= 10)
    /\ [][(pc = "atom" /\ ai > Len(kind)) =>
              IF iter_cnt = 9 THEN pc' = "reduce"
              ELSE pc' = "reduce" \/ iter_cnt' = iter_cnt + 1]_vars

C3_Witness == pc = "reduce" /\ Len(hist) = 10 /\ hist[10]

\* running every applicable rule on every atom once more adds nothing
IsFixedPoint ==
    \A a \in NonGhost :
        \A i \in 1..Len(Todo(a)) :
            LET res == run_rule(a, Todo(a)[i], wl, bl, neighbor_types_map)
            IN  res.w = wl[a] /\ res.b = bl[a]

\* C4: at the end of a pass the two sums are equal iff no list changed in the
\* pass; the loop goes on after every pass that changed a list and stops
\* after the first that changed none; a loop that stopped so is at a fixed
\* point.
C4_EarlyStop ==
    /\ (pc = "atom" /\ ai > Len(kind)) =>
           ((old_len = new_len) <=> (<<wl, bl>> = snap))
    /\ pc \in {"atom", "rule"} => \A i \in 1..Len(hist) : hist[i]
    /\ pc \in {"reduce", "done"} =>
           /\ \A i \in 1..(Len(hist) - 1) : hist[i]
           /\ hist[Len(hist)] <=> MaxIterWarned
           /\ ~hist[Len(hist)] => IsFixedPoint

C4_Witness ==
    /\ pc = "reduce"
    /\ Len(hist) >= 3
    /\ ~hist[Len(hist)]
    /\ \E a \in Atoms : bl[a] # {}

C6_AnyRun == pc = "done" => \A a \in NonGhost : opls_type[a].tag = "str"

\* C6, amended: so it is for every run with debug=False; an atom that was
\* written the sentinel does not keep the atoms after it from being typed.
C6_AllTyped ==
    /\ ~debug => C6_AnyRun
    /\ (pc = "reduce" /\ ~debug) =>
           \A i \in 1..(ti - 1) : opls_type[atoms[i]].tag = "str"

C6_Witness ==
    /\ pc = "done"
    /\ ~debug
    /\ \E a, b \in NonGhost :
           /\ a < b
           /\ opls_type[a].str = Sentinel
           /\ opls_type[b].tag = "str"
           /\ opls_type[b].str # Sentinel

\* C7 as stated: whatever the compound and the catalog, no exception leaves
\* a typing run.
C7_NeverRaises == pc # "raised"

SumLists(w, b, S) == SumOver(S, [a \in S |-> ListLen(w, b, a)])

\* C8: a ghost atom has empty lists and no opls_type, no rule is run on it,
\* no warning names it, and the sums of the convergence test are those of
\* the other atoms.
C8_GhostsSkipped ==
    /\ \A a \in Atoms :
           kind[a] = "G" =>
               /\ wl[a] = {} /\ bl[a] = {}
               /\ opls_type[a] = Unset
               /\ ~(pc = "rule" /\ ai = a)
               /\ \A i \in 1..Len(warnings) : warnings[i].atom # a
    /\ pc = "atom" =>
           /\ old_len = SumLists(snap[1], snap[2], {a \in NonGhost : a < ai})
           /\ new_len = SumLists(wl, bl, {a \in NonGhost : a < ai})

C8_Witness ==
    /\ pc = "done"
    /\ Len(hist) >= 3
    /\ \E g \in Atoms : kind[g] = "G" /\ AtomBonds(g) # {}
    /\ \E a \in NonGhost : opls_type[a].tag = "str" /\ opls_type[a].str # Sentinel

Bonded(a, b) == \E x \in bonds : x = <<a, b>> \/ x = <<b, a>>

\* C9 as stated: every ring returned has exactly ring_length atoms and
\* closes back to the start atom.
C9_ExactLength ==
    pc = "ring_done" =>
        \A i \in 1..Len(rings) :
            /\ Len(rings[i]) = ring_length
            /\ rings[i][1] = ring_atom
            /\ Bonded(rings[i][Len(rings[i])], ring_atom)

\* the paths of n distinct atoms that start at atom a
RECURSIVE SimplePaths(_, _)
SimplePaths(a, n) ==
    IF n = 1 THEN {<<a>>}
    ELSE UNION {{Append(p, x) :
                    x \in {y \in Atoms : Bonded(p[Len(p)], y) /\ y \notin Range(p)}}
                : p \in SimplePaths(a, n - 1)}

\* the cycles of exactly L atoms through atom a, each in both directions
CyclesThrough(a, L) == {p \in SimplePaths(a, L) : Bonded(p[L], a)}

Occurrences(p) == Cardinality({i \in 1..Len(rings) : rings[i] = p})

\* the path p walked in the other direction from its first atom
OtherDirection(p) == [i \in 1..Len(p) |-> IF i = 1 THEN p[1] ELSE p[Len(p) + 2 - i]]

\* C10 as stated: each cycle of ring_length atoms through the start atom is
\* in the result exactly twice, once per direction, and a start atom on one
\* such cycle gets exactly 2 entries.
C10_TwicePerCycle ==
    (pc = "ring_done" /\ ring_length >= 3) =>
        LET cyc == CyclesThrough(ring_atom, ring_length)
        IN  /\ \A p \in cyc :
                   Occurrences(p) = 1 /\ Occurrences(OtherDirection(p)) = 1
            /\ Cardinality(cyc) = 2 => Len(rings) = 2

\* the atom has no bucket of rules: none for its element, or none for its
\* number of neighbours under its element
NoElementBucket(a) == ~InRuleMap(kind[a])

NoCountBucket(a) ==
    InRuleMap(kind[a]) /\ <<kind[a], Len(neighbors(a))>> \notin DOMAIN rule_map

Uncovered(a) == NoElementBucket(a) \/ NoCountBucket(a)

\* C11 as stated: an atom without a bucket of rules has no rule run on it,
\* keeps empty lists and ends with the sentinel, whatever the run.
C11_AnyRun ==
    pc = "done" =>
        \A a \in NonGhost : Uncovered(a) => opls_type[a] = Str(Sentinel)

\* C11, amended: an atom without a bucket of rules has no rule run on it and
\* keeps empty lists, no exception is raised on it, every other atom is
\* still given what the reducer makes of its lists, and with debug=False the
\* atom ends with the sentinel.
C11_Uncovered ==
    /\ [](pc \in {"atom", "rule", "reduce", "done"} =>
             \A a \in NonGhost : Uncovered(a) => wl[a] = {} /\ bl[a] = {})
    /\ [][(pc = "rule" /\ Uncovered(ai)) => (pc' = "atom")]_vars
    /\ [][((pc = "atom" /\ ai <= Len(kind)) /\ Uncovered(ai)) =>
              (pc' \in {"atom", "rule"} /\ ai' >= ai)]_vars
    /\ [](pc = "done" =>
             \A a \in NonGhost :
                 /\ opls_type[a] = Reduced(a, wl, bl, debug)
                 /\ (Uncovered(a) /\ ~debug) => opls_type[a] = Str(Sentinel))

C11_Witness ==
    /\ pc = "done"
    /\ ~debug
    /\ \E a, b, c \in NonGhost :
           /\ NoElementBucket(a) /\ opls_type[a] = Str(Sentinel)
           /\ NoCountBucket(b) /\ opls_type[b] = Str(Sentinel)
           /\ ~Uncovered(c) /\ opls_type[c] = Str("140")

\* a carbon with exactly 4 neighbours, all hydrogen, each of which has the
\* carbon as its only neighbour
IsMethaneCarbon(a) ==
    /\ kind[a] = "C"
    /\ Len(neighbors(a)) = 4
    /\ \A i \in 1..4 :
           kind[neighbors(a)[i]] = "H" /\ Len(neighbors(neighbors(a)[i])) = 1

\* C12: when a run with the built-in rules returns, a methane carbon has
\* the only candidate 138 and each of its hydrogens the only candidate 140,
\* these are the types written when debug=False, the loop has stopped at a
\* pass that changed nothing and the non-convergence warning was not given.
C12_Methane ==
    (pc = "done" /\ catalog = "opls") =>
        \A a \in Atoms :
            IsMethaneCarbon(a) =>
                /\ Candidates(a) = {"138"}
                /\ ~debug => opls_type[a] = Str("138")
                /\ \A i \in 1..4 :
                       /\ Candidates(neighbors(a)[i]) = {"140"}
                       /\ ~debug => opls_type[neighbors(a)[i]] = Str("140")
                /\ ~hist[Len(hist)]
                /\ ~MaxIterWarned

C12_Witness ==
    /\ pc = "done"
    /\ catalog = "opls"
    /\ ~debug
    /\ \E a \in Atoms :
           /\ IsMethaneCarbon(a)
           /\ opls_type[a] = Str("138")
           /\ \A i \in 1..4 : opls_type[neighbors(a)[i]] = Str("140")
    /\ Len(hist) = 2

\* a carbon with exactly 3 neighbours, all of them carbon
AllCarbon3(a) ==
    /\ kind[a] = "C"
    /\ Len(neighbors(a)) = 3
    /\ \A i \in 1..3 : kind[neighbors(a)[i]] = "C"

\* the six-rings through atom a whose members are 3-neighbour all-carbon
\* atoms with neighbours of the same sort
AromaticRings(a) ==
    {p \in CyclesThrough(a, 6) :
        \A i \in 1..6 :
            /\ AllCarbon3(p[i])
            /\ \A j \in 1..3 : AllCarbon3(neighbors(p[i])[j])}

\* the cycles of 3 to 6 atoms through atom a, each in both directions
ShortCycles(a) == UNION {CyclesThrough(a, L) : L \in 3..6}

\* atom a lies on exactly one cycle of at most 6 atoms
OnOneRing(a) == Cardinality(ShortCycles(a)) = 2

\* atom a has a neighbour outside its ring that lies on exactly one cycle of
\* at most 6 atoms, the members of which are carbons with 3 neighbours
JoinsOtherRing(a) ==
    \E i \in 1..Len(neighbors(a)) :
        LET n == neighbors(a)[i]
        IN  /\ \A p \in ShortCycles(a) : n \notin Range(p)
            /\ OnOneRing(n)
            /\ \A p \in ShortCycles(n) :
                   \A k \in 1..Len(p) :
                       kind[p[k]] = "C" /\ Len(neighbors(p[k])) = 3

\* C13 as stated: every atom of such a six-ring has 141 in its blacklist and
\* the resolved type 145.
C13_AnyRing ==
    (pc = "done" /\ catalog = "opls") =>
        \A a \in Atoms :
            AromaticRings(a) # {} =>
                /\ "141" \in bl[a]
                /\ Candidates(a) = {"145"}
                /\ ~debug => opls_type[a] = Str("145")

\* C13, amended: an atom of such a six-ring that lies on no other cycle of
\* at most 6 atoms has 141 in its blacklist; its
\* resolved type is 145, unless a neighbour outside the ring lies on a ring
\* of 3-neighbour carbons of its own, and then it is 145B.  An atom that
\* lies on more cycles of at most 6 atoms keeps 141.
C13_Aromatic ==
    (pc = "done" /\ catalog = "opls") =>
        \A a \in Atoms :
            AromaticRings(a) # {} =>
                IF OnOneRing(a)
                THEN /\ "141" \in bl[a]
                     /\ Candidates(a) = IF JoinsOtherRing(a) THEN {"145B"} ELSE {"145"}
                     /\ ~debug => opls_type[a].str \in Candidates(a)
                ELSE /\ Candidates(a) = {"141"}
                     /\ bl[a] = {}

C13_Witness ==
    /\ pc = "done"
    /\ catalog = "opls"
    /\ ~debug
    /\ \E a, b \in Atoms :
           /\ AromaticRings(a) # {} /\ AromaticRings(b) # {}
           /\ "141" \in bl[a] /\ opls_type[a] = Str("145")
           /\ "145" \in bl[b] /\ opls_type[b] = Str("145B")

\* two rules of the catalog that match a shared pattern key blacklist each
\* other
MutualPairs(R, T) ==
    UNION {{<<A.id, B.id>> :
               B \in {x \in R :
                         /\ x # A
                         /\ x.id \in A.bl
                         /\ A.id \in x.bl
                         /\ ElementType(A) = ElementType(x)
                         /\ RulePatterns(T, A) \cap RulePatterns(T, x) # {}}}
           : A \in R}

MutualPairsOf(R) == MutualPairs(R, supported_atom_types(R))

MutualCatalogs == {c \in CatalogNames : MutualPairsOf(Catalog(c)) # {}}

NotDagWarned ==
    \E i \in 1..Len(warnings) : warnings[i].msg = "rule graph is not a DAG"

\* C14 as stated: once the checks of the rules are over, by their end or by
\* an exception, a catalog with two rules that match a shared pattern key
\* and blacklist each other has got the 'not a DAG' warning, whatever the
\* compound.
C14_NotDagWarning ==
    (pc \notin {"build", "validate"} /\ catalog \in MutualCatalogs) => NotDagWarned

\* the same when the checks come to their end
MutualWarnedWhenChecked ==
    (pc \in {"prepare", "atom", "rule", "reduce", "done"}
        /\ catalog \in MutualCatalogs) => NotDagWarned

-----------------------------------------------------------------------------
\* The blacklist graph over exactly the rules of one key: the edges of G
\* between two rules of the key.
InducedEdges(R, rules) == {e \in GraphEdges(R, rules) : e[2] \in rules}

\* The graph over the nodes N with the edges E is weakly connected, acyclic
\* and has exactly one node from which no other node is reached.
WellOrdered(N, E) ==
    LET U == E \cup {<<e[2], e[1]>> : e \in E}
    IN  /\ \A n \in N : Reach(U, {n}) = N
        /\ \A n \in N : n \notin Reach(E, {e[2] : e \in {x \in E : x[1] = n}})
        /\ Cardinality({n \in N : Reach(E, {n}) = {n}}) = 1

\* The keys of catalog c matched by more than one rule whose graph is not so.
IllOrderedIn(R, v) ==
    {k \in v.checked : ~WellOrdered(v.matches[k], InducedEdges(R, v.matches[k]))}

IllOrderedKeys(c) == IllOrderedIn(Catalog(c), Validated[c])

IllOrdered == [c \in {"opls", "chain"} |-> IllOrderedKeys(c)]

\* C15 as stated: for the rules of the module, the blacklist graph over the
\* rules of every key matched by more than one rule is weakly connected,
\* acyclic and has exactly one sink.
C15_BuiltinWellOrdered ==
    (catalog = "opls" /\ pc \notin {"build", "validate"}) => IllOrdered["opls"] = {}

-----------------------------------------------------------------------------
\* the candidates of atom a at the end of the first of two processes
PrevCandidates(a) == prev.wl[a] \ prev.bl[a]

\* C16 as stated: when the second process is over, every atom has the
\* candidates and the type it had at the end of the first, whatever the
\* rules.
C16_AnyCatalog ==
    (run = 2 /\ pc = "done") =>
        \A a \in NonGhost :
            /\ Candidates(a) = PrevCandidates(a)
            /\ opls_type[a] = prev.opls_type[a]

\* The same for the rules of the module only.
BuiltinOrderIndependent ==
    (run = 2 /\ pc = "done" /\ catalog = "opls") =>
        \A a \in NonGhost :
            /\ Candidates(a) = PrevCandidates(a)
            /\ opls_type[a] = prev.opls_type[a]

-----------------------------------------------------------------------------
\* C17 as stated: in a run started after atoms were removed, the counts
\* neighbor_types answers with for an atom are the counts of the elements of
\* its neighbours as they are now.
C17_CacheCurrent ==
    (run > 1 /\ pc \in {"prepare", "atom", "rule", "reduce", "done"}) =>
        \A a \in Atoms :
            /\ neighbor_types(neighbor_types_map, a) = Profile(a)
            /\ SumOver(DOMAIN Profile(a), neighbor_types(neighbor_types_map, a))
                   = Len(neighbors(a))

-----------------------------------------------------------------------------
\* the number of entries of the bucket k of rule_map that are v
TimesListed(k, v) ==
    Cardinality({i \in 1..Len(rule_map[k]) : rule_map[k][i] = v})

\* C18 as stated: once the rules are entered, in whichever run, every bucket
\* of rule_map lists each of its rules once, and rule_map is what the first
\* run made of it.
C18_BuiltOnce ==
    (pc \notin {"build", "raised"}) =>
        /\ \A k \in DOMAIN rule_map :
               \A i \in 1..Len(rule_map[k]) : TimesListed(k, rule_map[k][i]) = 1
        /\ rule_map = BuildRuleMap(<<>>, rorder)

\* What holds instead: after n runs every bucket lists each of its rules n
\* times.
ListedOncePerRun ==
    (pc \notin {"build", "raised"}) =>
        \A k \in DOMAIN rule_map :
            \A i \in 1..Len(rule_map[k]) : TimesListed(k, rule_map[k][i]) = run

-----------------------------------------------------------------------------
\* the loop made all its passes and every one of them changed a list
AllPassesChanged == Len(hist) = max_iter /\ \A i \in 1..Len(hist) : hist[i]

\* C19 as stated: the loop over, the warning is there iff all max_iter
\* passes were made and each changed a list; after the warning nothing is
\* raised, and at the end every non-ghost atom has a type or the sentinel.
C19_AnyRun ==
    /\ pc \in {"reduce", "done"} => (MaxIterWarned <=> AllPassesChanged)
    /\ MaxIterWarned => (pc \in {"reduce", "done"} /\ exc = "")
    /\ (pc = "done" /\ MaxIterWarned) =>
           \A a \in NonGhost : opls_type[a].tag = "str"

\* C19: the loop over, the warning is there iff all max_iter passes were
\* made and each changed a list; after the warning nothing is raised and the
\* reducer runs; at the end every non-ghost atom has what the reducer makes
\* of the lists reached: its type or the sentinel, or with debug=True the
\* list of its candidates.
C19_MaxIterWarning ==
    /\ pc \in {"reduce", "done"} => (MaxIterWarned <=> AllPassesChanged)
    /\ MaxIterWarned => (pc \in {"reduce", "done"} /\ exc = "")
    /\ (pc = "done" /\ MaxIterWarned) =>
           \A a \in NonGhost :
               /\ opls_type[a] = Reduced(a, wl, bl, debug)
               /\ ~debug => opls_type[a].tag = "str"

\* a run that warned and went on to give every atom the sentinel
C19_Witness ==
    /\ pc = "done"
    /\ MaxIterWarned
    /\ AllPassesChanged
    /\ \A a \in NonGhost : opls_type[a] = Str(Sentinel)

\* a run that made all its passes, the last of them changing nothing
LastPassStable == pc = "done" /\ ~MaxIterWarned /\ Len(hist) = max_iter

\* a run with debug=True that warned
WarnedDebugRun == pc = "done" /\ MaxIterWarned /\ debug

-----------------------------------------------------------------------------
\* run_rule is about to be called on atom ai with the rule id Called
AtRunRule == pc = "rule" /\ ri <= Len(Todo(ai))

Called == Todo(ai)[ri]

\* the call would get through the decorators and the function body would
\* return a true value, were the function called
WouldFire ==
    /\ HasRule(Called)
    /\ GatesPass(RuleOf(Called), ai, neighbor_types_map)
    /\ BodyRaises(RuleOf(Called), ai, wl, bl) = ""
    /\ Body(RuleOf(Called), ai, wl, bl)

\* C20: run_rule on an id that is in the atom's whitelist or blacklist
\* changes nothing, fills no cache entry and raises nothing; the call in
\* which a rule fires finds its id in neither list and leaves it in the
\* whitelist, and within a run no whitelist loses an entry, so a rule fires
\* at most once per atom; an id in an atom's blacklist and not in its
\* whitelist is not in the whitelist after the step.
C20_Guard ==
    [][/\ (AtRunRule /\ (Called \in wl[ai] \/ Called \in bl[ai])) =>
              (/\ wl' = wl /\ bl' = bl
               /\ neighbor_types_map' = neighbor_types_map
               /\ exc' = exc /\ pc' = pc /\ ri' = ri + 1)
       /\ (AtRunRule /\ (wl'[ai] # wl[ai] \/ bl'[ai] # bl[ai])) =>
              (/\ Called \notin wl[ai] /\ Called \notin bl[ai]
               /\ WouldFire
               /\ Called \in wl'[ai])
       /\ (pc # "prepare") =>
              (\A a \in Atoms :
                  /\ wl[a] \subseteq wl'[a]
                  /\ (bl[a] \ wl[a]) \cap wl'[a] = {})]_vars

\* run_rule is called with a rule that would fire on the atom, had an
\* earlier rule not blacklisted its id
C20_Witness ==
    /\ AtRunRule
    /\ Called \in bl[ai]
    /\ Called \notin wl[ai]
    /\ WouldFire

-----------------------------------------------------------------------------
\* every Element decorator of rule r names the element e and every
\* NeighborCount decorator the number n
Declared(r, e, n) ==
    /\ r.elements # <<>>
    /\ \A i \in 1..Len(r.elements) : r.elements[i] = e
    /\ \A i \in 1..Len(r.counts) : r.counts[i] = n

\* the identifiers ids are those of rules among R that declare e and n
DeclaredIds(R, ids, e, n) ==
    \A id \in ids : \E r \in R : r.id = id /\ HasCount(r) /\ Declared(r, e, n)

\* C21: in every state of a run every identifier in an atom's whitelist is
\* that of a rule that declares the atom's element and number of neighbours,
\* for the atom the loop arrives at, the Element and NeighborCount decorators
\* of a rule let a call through only if the rule declares the atom's element
\* and number of neighbours, and a rule they do not let through does not get
\* to its body: called on the atom, it raises nothing and leaves both lists
\* of the atom as they are.
C21_WhitelistDeclared ==
    [](/\ \A a \in Atoms :
              wl[a] # {} =>
                  DeclaredIds(Catalog(catalog), wl[a], kind[a], Len(neighbors(a)))
       /\ (pc = "rule" /\ ri = 1) =>
              \A r \in Catalog(catalog) :
                  IF ElementCountPass(r, ai)
                  THEN Declared(r, kind[ai], Len(neighbors(ai)))
                  ELSE LET res == rule_fn(r, ai, wl, bl, neighbor_types_map)
                       IN  res.raised = "" /\ res.w = wl[ai] /\ res.b = bl[ai])

\* a run ended in which atoms of one element with different numbers of
\* neighbours, and atoms of different elements, hold identifiers
C21_Witness ==
    /\ pc = "done"
    /\ \E a, b, c \in NonGhost :
           /\ kind[a] = kind[b] /\ Len(neighbors(a)) # Len(neighbors(b))
           /\ kind[c] # kind[a]
           /\ wl[a] # {} /\ wl[b] # {} /\ wl[c] # {}
           /\ wl[a] \cap wl[b] = {}

-----------------------------------------------------------------------------
\* the number of neighbours of atom a that are of element e
CountOf(a, e) ==
    Cardinality({i \in 1..Len(neighbors(a)) : kind[neighbors(a)[i]] = e})

\* what the Neighbors* decorator c asks of atom a
Asked(c, a) ==
    CASE c.op = "exactly" -> CountOf(a, c.el) = c.n
      [] c.op = "at_least" -> CountOf(a, c.el) >= c.n
      [] c.op = "at_most" -> CountOf(a, c.el) <= c.n

\* C22 as stated: a rule called on an atom of its element and neighbour
\* count gets to its body exactly when the atom has, for every Neighbors*
\* decorator, the number of neighbours of the element the decorator asks
\* for, atoms with no neighbour of that element included.
C22_ExactCounts ==
    (AtRunRule /\ HasRule(Called) /\ ElementCountPass(RuleOf(Called), ai)) =>
        (GatesPass(RuleOf(Called), ai, neighbor_types_map)
            <=> \A i \in 1..Len(RuleOf(Called).cons) : Asked(RuleOf(Called).cons[i], ai))

\* The same for the decorators whose element is among the atom's neighbours.
CountsOfPresentElements ==
    (AtRunRule /\ HasRule(Called) /\ ElementCountPass(RuleOf(Called), ai)) =>
        \A i \in 1..Len(RuleOf(Called).cons) :
            CountOf(ai, RuleOf(Called).cons[i].el) > 0 =>
                (ConstraintHolds(RuleOf(Called).cons[i],
                                 neighbor_types(neighbor_types_map, ai))
                    <=> Asked(RuleOf(Called).cons[i], ai))

\* A decorator whose element is not among the atom's neighbours never lets
\* the call through.
AbsentElementBlocks ==
    (AtRunRule /\ HasRule(Called) /\ ElementCountPass(RuleOf(Called), ai)) =>
        \A i \in 1..Len(RuleOf(Called).cons) :
            CountOf(ai, RuleOf(Called).cons[i].el) = 0 =>
                ~GatesPass(RuleOf(Called), ai, neighbor_types_map)

\* an at-most decorator is put to an atom with neighbours of its element,
\* within the bound
AtMostPasses ==
    /\ AtRunRule /\ Called = "921"
    /\ CountOf(ai, "O") = 1
    /\ GatesPass(RuleOf(Called), ai, neighbor_types_map)

-----------------------------------------------------------------------------
\* C23: a rule function called on an atom whose gates pass and whose body
\* returns a true value adds, in that call, every identifier of its Whitelist
\* decorator to the atom's whitelist and every identifier of its Blacklist
\* decorator to the atom's blacklist; a call in which a gate fails or the
\* body returns a false value leaves the lists of every atom as they are.
C23_FireAddsBoth ==
    [][(AtRunRule /\ HasRule(Called) /\ MayRun(Called, wl, bl, ai)) =>
          IF WouldFire
          THEN /\ wl' = [wl EXCEPT ![ai] = @ \cup RuleOf(Called).wl]
               /\ bl' = [bl EXCEPT ![ai] = @ \cup RuleOf(Called).bl]
          ELSE wl' = wl /\ bl' = bl]_vars

\* the rule just called on the atom declares three blacklist identifiers; it
\* was in none of the atom's lists when the pass began and all it declares is
\* in them now
C23_Witness ==
    /\ pc = "rule"
    /\ ri > 1
    /\ LET r == RuleOf(Todo(ai)[ri - 1])
       IN  /\ Cardinality(r.bl) = 3
           /\ r.id \notin snap[1][ai]
           /\ r.wl \subseteq wl[ai]
           /\ r.bl \subseteq bl[ai]
           /\ r.bl \cap snap[2][ai] = {}

\* a rule is called whose gates pass and whose body returns a false value
BodyFalseCall ==
    /\ AtRunRule /\ HasRule(Called) /\ MayRun(Called, wl, bl, ai)
    /\ GatesPass(RuleOf(Called), ai, neighbor_types_map)
    /\ BodyRaises(RuleOf(Called), ai, wl, bl) = ""
    /\ ~Body(RuleOf(Called), ai, wl, bl)

-----------------------------------------------------------------------------
\* the second process differs from the first in the order of the atoms only
AtomsReordered == run = 2 /\ rorder = DictOrder(catalog)

\* C24 as stated: a compound typed with its atoms visited in the opposite
\* order, all else the same, takes the number of passes it took before.
C24_SamePasses ==
    (AtomsReordered /\ pc = "done") => Len(hist) = prev.passes

\* rules that look at no other atom's lists take the same passes in both
\* orders
SamePassesWithoutLookups ==
    (AtomsReordered /\ pc = "done"
        /\ \A a \in Atoms : \A id \in wl[a] : RuleOf(id).body = "true") =>
        Len(hist) = prev.passes

-----------------------------------------------------------------------------
\* C25 as stated: a compound typed with every neighbour list enumerated in
\* the opposite order, all else the same, gives every atom the candidates
\* and the type it had before.
C25_SameTypes ==
    (run = 2 /\ pc = "done") =>
        \A a \in NonGhost :
            /\ Candidates(a) = PrevCandidates(a)
            /\ opls_type[a] = prev.opls_type[a]

\* an atom whose candidates differ between the two processes is a carbon
\* with two carbon neighbours, or a neighbour of one
LastCarbonDecides ==
    (run = 2 /\ pc = "done") =>
        \A a \in NonGhost :
            Candidates(a) # PrevCandidates(a) =>
                \E x \in {a} \cup Range(neighbors(a)) :
                    kind[x] = "C" /\ CountOf(x, "C") >= 2

-----------------------------------------------------------------------------
\* the rules of the catalog with an Element and no NeighborCount decorator
StarRules == {r \in Catalog(catalog) : ElementType(r) # "" /\ ~HasCount(r)}

\* C26 as stated: the rules are entered, every rule with an element and no
\* neighbour count has one entry in the '*' bucket of its element; the call
\* raises nothing because of it, and at its end every atom of that element
\* has been put to the rule: with a body that returns True, the rule's
\* identifiers are in the atom's whitelist.
C26_StarRulesRun ==
    StarRules # {} =>
        /\ pc # "build" =>
               \A r \in StarRules : Len(Bucket(ElementType(r), Star)) >= 1
        /\ pc # "raised"
        /\ pc = "done" =>
               \A r \in StarRules :
                   \A a \in NonGhost :
                       (kind[a] = ElementType(r) /\ r.body = "true") =>
                           r.wl \subseteq wl[a]

\* the '*' bucket gets one entry per such rule, and the call raises before
\* the lists are prepared
StarRulesRaise ==
    StarRules # {} =>
        /\ pc # "build" =>
               \A r \in StarRules : Len(Bucket(ElementType(r), Star)) = 1
        /\ pc \in {"build", "validate", "raised"}
        /\ pc = "raised" => exc = "TypeError"

-----------------------------------------------------------------------------
\* The keys among those checked with the rules R, v what the checks made of
\* them, whose graph G has a node that is not a rule of the key, lacks a
\* rule of the key, or has an edge that leaves the rules of the key.
OffKeyIn(R, v) ==
    {k \in v.checked :
        \/ GraphNodes(GraphEdges(R, v.matches[k])) # v.matches[k]
        \/ \E e \in GraphEdges(R, v.matches[k]) :
               e[1] \notin v.matches[k] \/ e[2] \notin v.matches[k]}

OffKeyOf(c) == OffKeyIn(Catalog(c), Validated[c])

OffKey == [c \in CatalogNames |-> OffKeyOf(c)]

\* C27 as stated: the checks of the rules over, the graph of every key
\* matched by more than one rule had as nodes exactly the rules of the key
\* and as edges only blacklistings of one rule of the key by another.
C27_GraphOverMatches ==
    (pc \notin {"build", "validate"} /\ CheckedKeys # {}) => OffKey[catalog] = {}

\* so it is for the rules of the chain, which all match one key and
\* blacklist each other only
ChainGraphOverMatches ==
    (pc \notin {"build", "validate"} /\ catalog = "chain") =>
        CheckedKeys # {} /\ OffKey[catalog] = {}

-----------------------------------------------------------------------------
\* the rules of the catalog with more than one Element decorator
DupElementRules == {r \in Catalog(catalog) : Len(r.elements) > 1}

\* C28 as stated: with a rule that carries two Element decorators in the
\* catalog the call raises nothing, and once the checks of the rules are
\* over a warning has named the duplicate.
C28_DupElementWarned ==
    DupElementRules # {} =>
        /\ pc # "raised"
        /\ pc \notin {"build", "validate"} =>
               \E i \in 1..Len(warnings) :
                   warnings[i].msg = "Duplicate element type decorators"

\* with such a rule the call ends in the checks of the rules with an
\* AssertionError, no warning given
DupElementAborts ==
    DupElementRules # {} =>
        /\ pc \in {"build", "validate", "raised"}
        /\ pc = "raised" => exc = "AssertionError"
        /\ warnings = <<>>

-----------------------------------------------------------------------------
\* the atoms whose element has no rule, ports left aside
NoElementAtoms == {a \in NonGhost : NoElementBucket(a)}

\* the number of warn("No rule for atom kind ...") calls made for atom a
KindWarnings(a) ==
    Cardinality({i \in 1..Len(warnings) :
                    warnings[i].msg = "No rule for atom kind" /\ warnings[i].atom = a})

\* one atom of the compound is of an element without rule and others are
\* of elements with rules
OneGap ==
    /\ Cardinality(NoElementAtoms) = 1
    /\ \E a \in NonGhost : ~Uncovered(a)

\* C29 as stated: at the end of a run on such a compound, one warning has
\* been given for the atom of the element without rule.
C29_OneGapWarning ==
    (pc = "done" /\ OneGap) => \A a \in NoElementAtoms : KindWarnings(a) = 1

\* the loop over, the warning has been given once in every pass for every
\* atom of an element without rule
GapWarningPerPass ==
    pc \in {"reduce", "done"} =>
        \A a \in NoElementAtoms : KindWarnings(a) = Len(hist)

-----------------------------------------------------------------------------
\* the warnings of the reducer
TopologyWarnings == {i \in 1..Len(warnings) : warnings[i].msg = "CHECK YOUR TOPOLOGY"}

\* the reducer has warned for atom a
WarnedFor(a) == \E i \in TopologyWarnings : warnings[i].atom = a

\* the reducer warns for the atoms, and only those, whose candidates are
\* not exactly one, and names the atom's place in compound.atoms and its
\* element
WarningNamesAtom ==
    /\ \A i \in TopologyWarnings :
           /\ atoms[warnings[i].index + 1] = warnings[i].atom
           /\ warnings[i].kind = kind[warnings[i].atom]
    /\ pc = "done" =>
           \A a \in NonGhost :
               WarnedFor(a) <=> (~debug /\ Cardinality(Candidates(a)) # 1)

\* C30 as stated: the warning for an atom whose candidates are not exactly
\* one names the atom's place, its element and its whole whitelist.
C30_WholeWhitelist ==
    /\ WarningNamesAtom
    /\ \A i \in TopologyWarnings : warnings[i].types = wl[warnings[i].atom]

\* what the warning holds is the whitelist less the blacklist
WarningHoldsCandidates ==
    /\ WarningNamesAtom
    /\ \A i \in TopologyWarnings : warnings[i].types = Candidates(warnings[i].atom)

-----------------------------------------------------------------------------
(* The ring search, statement by statement. *)

Distinct(p) == \A i, j \in 1..Len(p) : i # j => p[i] # p[j]

\* consecutive atoms of p are bonded and the last is bonded to the first
ClosedChain(p) ==
    /\ \A i \in 1..(Len(p) - 1) : Bonded(p[i], p[i + 1])
    /\ Bonded(p[Len(p)], p[1])

\* the two models of the search agree: the statement-by-statement search
\* ends with the rings the recursive definition gives
SearchAgrees == pc = "ring_done" => rings = Rings(ring_atom, ring_length)

SearchPathInvariant ==
    /\ Len(step_pos) = Len(current_path)
    /\ current_path # <<>> => current_path[1] = ring_atom
    /\ Distinct(current_path)
    /\ Len(current_path) <= ring_length
    /\ \A i \in 1..Len(rings) :
           /\ rings[i][1] = ring_atom
           /\ Distinct(rings[i])
           /\ ClosedChain(rings[i])

\* C31: while Rings.step is running, current_path begins with the start
\* atom, holds no atom twice and holds at most ring_length atoms; every
\* ring appended to rings is a sequence of distinct atoms, each bonded to
\* the next and the last bonded to the start atom; and the search ends.
C31_SearchBounded == []SearchPathInvariant /\ <>(pc = "ring_done")

\* the path is as long as it may get, after a ring of that length was found
C31_Witness ==
    /\ pc = "ring_step"
    /\ ring_length >= 4
    /\ Len(current_path) = ring_length
    /\ \E i \in 1..Len(rings) : Len(rings[i]) = ring_length
    /\ \E a \in Atoms : Len(neighbors(a)) <= 1

-----------------------------------------------------------------------------
(* What a rule may write. *)

InPass == pc \in {"atom", "rule"}

ListsChanged(a) == wl'[a] # wl[a] \/ bl'[a] # bl[a]

\* C32: a step of a pass changes no atom's kind and no bond, and changes the
\* whitelist or blacklist of an atom only by running a rule on that atom,
\* which adds to them; so the sums of lengths taken at the start and at the
\* end of every visit are equal exactly when no list changed in the pass.
C32_OwnListsOnly ==
    [][InPass =>
          /\ kind' = kind
          /\ bonds' = bonds
          /\ \A a \in Atoms :
                 ListsChanged(a) =>
                     /\ pc = "rule" /\ ri <= Len(Todo(ai)) /\ a = ai
                     /\ wl[a] \subseteq wl'[a]
                     /\ bl[a] \subseteq bl'[a]
          /\ (pc = "atom" /\ ai > Len(kind)) =>
                 ((old_len = new_len) <=> (<<wl, bl>> = snap))]_vars

\* a rule has just added to the lists of an atom whose neighbour, visited
\* before it, holds candidates of its own
C32_Witness ==
    /\ pc = "rule"
    /\ ri > 1
    /\ wl[ai] # snap[1][ai]
    /\ bl[ai] # snap[2][ai]
    /\ \E i \in 1..Len(neighbors(ai)) :
           neighbors(ai)[i] < ai /\ wl[neighbors(ai)[i]] # {}

-----------------------------------------------------------------------------
(* The phases of one call. *)

\* the phase of atomtypes_opls the call is in: the rule map and its checks,
\* prepare, the passes, the reducer, returned; 6 when an exception left it
PhaseOf(p) ==
    CASE p \in {"build", "validate"} -> 1
      [] p = "prepare" -> 2
      [] p \in {"atom", "rule"} -> 3
      [] p = "reduce" -> 4
      [] p = "done" -> 5
      [] OTHER -> 6

SomeTypeWritten == \E a \in Atoms : opls_type[a] # Unset

\* C33: a call goes through its phases in order and skips none (an
\* exception ends it); the lists are written by prepare and by the passes
\* only; opls_type is written by the reducer only, one atom at a time and
\* each non-ghost atom once; and once a type is written no rule runs and no
\* list changes.
C33_PhasesOrdered ==
    [][/\ PhaseOf(pc') \in {PhaseOf(pc), PhaseOf(pc) + 1, 6}
       /\ (wl' # wl \/ bl' # bl) => PhaseOf(pc) \in {2, 3}
       /\ PhaseOf(pc) = 2 =>
              \A a \in Atoms : wl'[a] = {} /\ bl'[a] = {}
       /\ opls_type' # opls_type =>
              /\ PhaseOf(pc) = 4
              /\ \E a \in NonGhost :
                     /\ opls_type[a] = Unset
                     /\ \A b \in Atoms \ {a} : opls_type'[b] = opls_type[b]
       /\ SomeTypeWritten =>
              /\ PhaseOf(pc) = 4
              /\ PhaseOf(pc') \in {4, 5}
              /\ wl' = wl /\ bl' = bl
       /\ PhaseOf(pc') = 5 =>
              \A a \in Atoms : (opls_type'[a] # Unset) <=> (a \in NonGhost)]_vars

\* a call that took three passes has returned, every atom typed
C33_Witness ==
    /\ pc = "done"
    /\ Len(hist) >= 3
    /\ \E a \in NonGhost : wl[a] \cap bl[a] # {}
    /\ \A a \in NonGhost : opls_type[a] # Unset

-----------------------------------------------------------------------------
(* How deep the lookups of the built-in rules go. *)

\* the identifiers the body of rule r looks for in whitelists
LookedUp(r) ==
    CASE r.body \in {"first_neighbor", "carbon_neighbor"} -> r.arg
      [] r.body = "opls_218" -> {"145", "154"}
      [] r.body = "opls_221" -> {"145", "218"}
      [] r.body = "opls_232" -> {"145", "278"}
      [] OTHER -> {}

\* the rules that whitelist one of ids
Whitelisting(R, ids) == {r \in R : r.wl \cap ids # {}}

\* whether a chain of n lookups ends in rule r: r looks up an identifier a
\* rule whitelists in which a chain of n - 1 lookups ends
RECURSIVE ChainEndsIn(_, _, _)
ChainEndsIn(R, r, n) ==
    IF n = 0 THEN TRUE
    ELSE \E q \in Whitelisting(R, LookedUp(r)) : ChainEndsIn(R, q, n - 1)

\* the longest chain of lookups in the built-in rules has two links
OplsDepthTwo ==
    /\ \E r \in OplsRules : ChainEndsIn(OplsRules, r, 2)
    /\ \A r \in OplsRules : ~ChainEndsIn(OplsRules, r, 3)

\* C34: with the built-in rules a call takes at most 4 passes, in either
\* order of the atoms and of the rules, and never gives the warning of the
\* used-up loop; no chain of lookups in the rules is longer than two.
C34_BuiltinFourPasses ==
    catalog = "opls" =>
        /\ Len(hist) <= 4
        /\ iter_cnt <= 3
        /\ ~MaxIterWarned
        /\ OplsDepthTwo

\* a call on the reordered compound took 4 passes: the hydrogen of an
\* aldehyde was visited before its carbon, and the carbon before the ring
C34_Witness ==
    /\ pc = "done"
    /\ catalog = "opls"
    /\ run = 2
    /\ Len(hist) = 4
    /\ \E a \in Atoms : "279" \in wl[a]

-----------------------------------------------------------------------------
(* debug=True. *)

\* the reducer has dealt with atom a
ReducerPast(a) ==
    \/ pc = "done"
    \/ pc = "reduce" /\ \E i \in 1..(ti - 1) : atoms[i] = a

\* C35: with debug=True the reducer writes to every non-ghost atom the list
\* of all of its candidates (whitelist - blacklist), be they none, one or
\* several, never the sentinel, and gives no 'CHECK YOUR TOPOLOGY' warning;
\* the whitelists, the blacklists and the number of passes are those of the
\* run with debug=False.
C35_DebugLists ==
    (debug /\ pc \in {"reduce", "done"}) =>
        /\ \A a \in NonGhost :
               ReducerPast(a) =>
                   /\ opls_type[a] = List(Candidates(a))
                   /\ opls_type[a] # Str(Sentinel)
        /\ TopologyWarnings = {}
        /\ run = 2 => wl = prev.wl /\ bl = prev.bl /\ Len(hist) = prev.passes

\* the run with debug=True has returned; with debug=False one atom was given
\* the sentinel for having two candidates, another its type
C35_Witness ==
    /\ pc = "done"
    /\ debug
    /\ run = 2
    /\ \E a, b \in NonGhost :
           /\ Cardinality(Candidates(a)) > 1 /\ prev.opls_type[a] = Str(Sentinel)
           /\ Cardinality(Candidates(b)) = 1 /\ prev.opls_type[b] # Str(Sentinel)

\* reachable as well: the empty list written where debug=False gave the
\* sentinel
DebugEmptyList ==
    /\ pc = "done"
    /\ debug
    /\ run = 2
    /\ \E a \in NonGhost :
           opls_type[a] = List({}) /\ prev.opls_type[a] = Str(Sentinel)

-----------------------------------------------------------------------------
(* Compound.add and Compound.remove. *)

\* the step takes atom x, and no other atom, out of the parts of compound c
TakesOut(c, x) ==
    /\ x \in parts[c] /\ x \notin parts'[c]
    /\ \A d \in CompoundObjs : parts[d] \ parts'[d] \subseteq {x} \cup BondObjs

\* atom y holds a bond to atom x
ListsAsNeighbor(h_bonds, y, x) ==
    \E b \in h_bonds[y] : x \in BondsOfAtom(b) /\ x # y

\* every bond atom x holds is held by the atom at its other end
BondsMutual(x) ==
    \A b \in atom_bonds[x] : b \in atom_bonds[OtherAtomObj(b, x)]

\* reachable: an atom with a bond is taken out of a compound while every
\* bond is held at both ends
FirstAtomOut ==
    /\ calls > 0
    /\ \E x \in AtomObjs :
          /\ atom_bonds[x] # {}
          /\ \A b \in atom_bonds[x] : b \notin atom_bonds[OtherAtomObj(b, x)]
          /\ parent[x] = None
          /\ raised = ""

\* C36 as stated: a step that takes an atom out of a compound leaves none
\* of the atom's bonds in the other atom's bond set or in the parts of a
\* compound, and no atom that is part of a compound lists it as a neighbour.
C36_BondsGone ==
    [][\A c \in CompoundObjs, x \in AtomObjs :
          TakesOut(c, x) =>
              /\ \A b \in atom_bonds[x] :
                     /\ b \notin atom_bonds'[OtherAtomObj(b, x)]
                     /\ \A d \in CompoundObjs : b \notin parts'[d]
              /\ \A d \in CompoundObjs : \A y \in parts'[d] \cap AtomObjs :
                     ~ListsAsNeighbor(atom_bonds', y, x)]_vars

\* What holds: so it is when every bond an atom holds is held by the atom
\* at its other end, as it is until the first atom is taken out.
BondsGoneIfMutual ==
    [][\A c \in CompoundObjs, x \in AtomObjs :
          (TakesOut(c, x) /\ \A z \in AtomObjs : BondsMutual(z)) =>
              /\ \A b \in atom_bonds[x] :
                     /\ b \notin atom_bonds'[OtherAtomObj(b, x)]
                     /\ \A d \in CompoundObjs : b \notin parts'[d]
              /\ \A d \in CompoundObjs : \A y \in parts'[d] \cap AtomObjs :
                     ~ListsAsNeighbor(atom_bonds', y, x)]_vars

\* What holds: remove leaves the bond set of the atom it takes out as it was.
RemovedAtomKeepsBonds ==
    [][\A c \in CompoundObjs, x \in AtomObjs :
          TakesOut(c, x) => atom_bonds'[x] = atom_bonds[x]]_vars

\* reachable: an atom taken out of its compound by a call that raised
\* KeyError, while another atom holds a bond to it
RemoveRaisedKeyError ==
    /\ raised = "KeyError"
    /\ \E x, y \in AtomObjs :
          /\ parent[x] # None
          /\ \A c \in CompoundObjs : x \notin parts[c]
          /\ ListsAsNeighbor(atom_bonds, y, x)

\* C37 as stated: a part is among the parts of a compound exactly when that
\* compound is its parent (so it is in one compound at most, and a part
\* taken out has no parent), and a call of add on a part that has a parent
\* raises and changes nothing.
C37_ParentOfParts ==
    /\ \A c \in CompoundObjs, x \in Objs : (x \in parts[c]) <=> (parent[x] = c)
    /\ \A x \in Objs : parent[x] \in CompoundObjs \cup {None}
    /\ raised = "AssertionError" =>
           \E x \in Objs : parent[x] # None

\* What holds: every part of a compound has that compound as its parent,
\* and no part is among the parts of two compounds.
PartsHaveParent ==
    /\ \A c \in CompoundObjs : \A x \in parts[c] : parent[x] = c
    /\ \A c, d \in CompoundObjs : c # d => parts[c] \cap parts[d] = {}

\* What holds: a part has a parent and is in no compound only after a
\* remove that raised KeyError.
OrphanOnlyByKeyError ==
    [][(\E x \in Objs : parent'[x] # None /\ x \notin parts'[parent'[x]]
                       /\ ~(parent[x] # None /\ x \notin parts[parent[x]]))
          => raised' = "KeyError"]_vars

\* What holds: a call of add on a part that has a parent changes nothing.
AddRejected ==
    [][raised' = "AssertionError" =>
          (\E x \in Objs : parent[x] # None)
          /\ parts' \in {parts} \cup
                 {[parts EXCEPT ![c] = @ \cup {x}] : c \in CompoundObjs, x \in AtomObjs}]_vars

\* C38 as stated: a call of add that raises for a label in use leaves the
\* parts, the parents and the labels as they were.
C38_AddUnchanged ==
    [][raised' = "Exception" =>
          /\ parts' = parts
          /\ parent' = parent
          /\ labels' = labels
          /\ label_lists' = label_lists]_vars

\* What holds: such a call leaves the labels that hold a part as they were;
\* the part is among the parts of the compound and has it as its parent.
LabelKeptPartAdded ==
    [][raised' = "Exception" =>
          /\ labels' = labels
          /\ referrers' = referrers
          /\ \E c \in CompoundObjs, x \in AtomObjs :
                 /\ parent[x] = None
                 /\ parts' = [parts EXCEPT ![c] = @ \cup {x}]
                 /\ parent' = [parent EXCEPT ![x] = c]
                 /\ label_lists' \in {label_lists,
                                      [label_lists EXCEPT ![c] = Append(@, x)]}]_vars

\* reachable: the call raised after it had put the part on the list of a
\* "[$]" label
ListedThenRaised ==
    /\ raised = "Exception"
    /\ \E c \in CompoundObjs :
          /\ label_lists[c] # <<>>
          /\ \A k \in DOMAIN labels[c] :
                 labels[c][k] # label_lists[c][Len(label_lists[c])]

====
